---- MODULE Spec2Model ----
(***************************************************************************)
(* ProMax MCP server (src/procagent/mcp/promax_server.py): the ProMaxState *)
(* singleton and the tools that read and change it.  A tool invocation is  *)
(* one action; the vendor (COM) calls it makes may raise at any point,     *)
(* which the input failAt chooses (0: no call raises, k: the k-th call of  *)
(* the handler raises).                                                    *)
(***************************************************************************)
EXTENDS Integers, Sequences, FiniteSets, TLC

\* Python's None.  Handles and numbers are records, so that `x # None`
\* is defined for every value a field or an argument may hold.
None == [type |-> "NoneType"]

\* args.get("name") / args.get("stream_name") when the key is missing: None
\* where a name is expected (names are strings in the model)
NoName == "<None>"

\* ---------------------------------------------------------------------
\* Bounds of the model
\* ---------------------------------------------------------------------
\* components registered in one flowsheet environment
MaxComps == 2

VARIABLES
    state,        \* the ProMaxState singleton (_state)
    envComponents,\* vendor: Environment.Components of the flowsheet held in state.flowsheet
    pre,          \* the fields of state when the last invocation started
    lastTool,     \* the tool whose result the agent has not taken yet ("none": idle)
    lastArgs,     \* its argument mapping
    lastResult,   \* the dict it returned
    vendorCalls,  \* the vendor calls it made, in order (the last one raised when it failed)
    writes,       \* what those calls wrote to the simulator, in order
    session,      \* the websocket session whose agent the tool calls come from
    cls,          \* the class ProMaxState: _instance, and _initialized of that instance
    manager,      \* a SessionManager (server/session.py)
    now,          \* datetime.now(), in units of the session timeout's clock
    sessions,     \* server/app.py: the module-level dict session id -> agent
    conn,         \* server/app.py: the websocket_endpoint call of each connection
    vnc,          \* server/vnc_manager.py: the WebsockifyManager and its subprocesses
    auth_sessions,\* server/app.py: the module-level dict token -> expiry time
    tokens,       \* the tokens login issued (with their expiry) and those logged out
    created       \* per stream or block name, the mode of its latest creation

\* what the tools of the MCP server read and assign
toolVars ==
    <<state, envComponents, pre, lastTool, lastArgs, lastResult, vendorCalls, writes,
      session>>

\* what the tools of the MCP server neither read nor assign
serverVars == <<cls, manager, now, sessions, conn, vnc, auth_sessions, tokens, created>>

vars ==
    <<state, envComponents, pre, lastTool, lastArgs, lastResult, vendorCalls, writes,
      session, cls, manager, now, sessions, conn, vnc, auth_sessions, tokens, created>>

\* get_promax_state(): the module-level instance, whoever asks
get_promax_state == state

\* ---------------------------------------------------------------------
\* ProMaxState
\* ---------------------------------------------------------------------
\* ProMaxState.__init__: the fields of a fresh instance
ProMaxState_init ==
    [pmx |-> None, project |-> None, flowsheet |-> None, visio |-> None,
     vpage |-> None, stencils |-> {}, stream_shapes |-> <<>>,
     block_shapes |-> <<>>, with_gui |-> FALSE]

\* reset that leaves the flowsheet handle in place
reset_keeping_flowsheet(s) ==
    [s EXCEPT !.pmx = None, !.project = None, !.visio = None, !.vpage = None,
              !.stencils = {}, !.stream_shapes = <<>>, !.block_shapes = <<>>,
              !.with_gui = FALSE]

\* reset that does not clear the shape registries
reset_keeping_shapes(s) ==
    [s EXCEPT !.pmx = None, !.project = None, !.flowsheet = None,
              !.visio = None, !.vpage = None, !.stencils = {},
              !.with_gui = FALSE]

\* reset that leaves the GUI flag and the stencils
reset_keeping_gui(s) ==
    [s EXCEPT !.pmx = None, !.project = None, !.flowsheet = None,
              !.visio = None, !.vpage = None,
              !.stream_shapes = <<>>, !.block_shapes = <<>>]

\* ProMaxState.reset
reset(s) ==
    [s EXCEPT !.pmx = None, !.project = None, !.flowsheet = None,
              !.visio = None, !.vpage = None, !.stencils = {},
              !.stream_shapes = <<>>, !.block_shapes = <<>>,
              !.with_gui = FALSE]

\* a connection test that always passes
is_connected_unchecked(s) == TRUE

\* ProMaxState.is_connected
is_connected(s) == s.pmx # None

\* a flowsheet test that looks at the project instead
has_flowsheet_by_project(s) == s.project # None

\* ProMaxState.has_flowsheet
has_flowsheet(s) == s.flowsheet # None

\* ---------------------------------------------------------------------
\* Results
\* ---------------------------------------------------------------------
\* the text of a result: its prefix, its fixed wording and the values
\* formatted into it
Text(prefix, msg, info) == [prefix |-> prefix, msg |-> msg, info |-> info]

ErrorPrefix == "Error: "
NoPrefix == ""

\* _result
_result(text) == [content |-> <<[type |-> "text", text |-> text]>>]

\* reading a result back
ResultText(r) == r.content[1].text
IsError(r) == ResultText(r).prefix = ErrorPrefix
Msg(r) == ResultText(r).msg

\* what a handler hands back to the action: the new state fields, the
\* result, the vendor calls made and what they wrote to the simulator
Outcome(s, r, calls, ws) == [st |-> s, res |-> r, calls |-> calls, writes |-> ws]

\* One entry of the trace of a try-body: a vendor call, the state fields
\* once the call has returned and the assignments up to the next call are
\* done, and what the call writes to the simulator.
Step(call, st) == [call |-> call, st |-> st, writes |-> <<>>, caught |-> FALSE]
StepW(call, st, w) == [call |-> call, st |-> st, writes |-> <<w>>, caught |-> FALSE]

\* a call inside an inner try whose except clause swallows the exception:
\* its raising does not end the handler
Caught(step) == [step EXCEPT !.caught = TRUE]

\* failAt: 0 (no call raises) or the position of a call whose exception
\* reaches the handler's except clause
FailPoints(trace) == {0} \cup {i \in 1..Len(trace) : ~trace[i].caught}

CallNames(trace) == [i \in 1..Len(trace) |-> trace[i].call]

StateAfter(s, trace, k) == IF k = 0 THEN s ELSE trace[k].st

\* the writes of the first k calls
RECURSIVE WritesOf(_, _)
WritesOf(trace, k) ==
    IF k = 0 THEN <<>> ELSE WritesOf(trace, k - 1) \o trace[k].writes

\* a handler whose except clause is missing: the exception of the k-th call
\* leaves the handler instead of a result
Except_propagating(s, trace, failAt, errmsg) ==
    Outcome(StateAfter(s, trace, failAt - 1),
            [raised |-> trace[failAt].call],
            SubSeq(CallNames(trace), 1, failAt),
            WritesOf(trace, failAt - 1))

\* except Exception as e: return _result(f"Error: <errmsg>: {str(e)}")
\* The k-th call raising leaves the assignments of the first k-1 statements.
Except(s, trace, failAt, errmsg) ==
    Outcome(StateAfter(s, trace, failAt - 1),
            _result(Text(ErrorPrefix, errmsg, <<trace[failAt].call>>)),
            SubSeq(CallNames(trace), 1, failAt),
            WritesOf(trace, failAt - 1))

\* try: <trace>; return ok / except ...
TryExcept(s, trace, failAt, ok, errmsg) ==
    IF failAt = 0
    THEN Outcome(StateAfter(s, trace, Len(trace)), ok, CallNames(trace),
                 WritesOf(trace, Len(trace)))
    ELSE Except(s, trace, failAt, errmsg)

\* ---------------------------------------------------------------------
\* Vendor values the tools read
\* ---------------------------------------------------------------------
\* Visio documents: Type 2 is a stencil
Doc(name, type) == [Name |-> name, Type |-> type]

\* the Documents collection Visio holds: a drawing and two stencils
Documents ==
    <<Doc("Drawing1", 1), Doc("Streams.vss", 2), Doc("Separators.vss", 2)>>

\* COM handles: the dispatch object of a ProgID, a project, the flowsheet
\* of a project, the Visio application, the page of a flowsheet, the shape
\* dropped from a master
Dispatch(progid) == [progid |-> progid]
Project(n) == [id |-> n]
VisioApp == [app |-> "Visio"]
Flowsheet(p) == [project |-> p]
VisioPage(fs) == [flowsheet |-> fs]
Shape(master) == [master |-> master]

\* the project handles the state fields still refer to
LiveProjects(s) ==
    {s.project} \cup (IF s.flowsheet # None THEN {s.flowsheet.project} ELSE {})
                \cup (IF s.vpage # None THEN {s.vpage.flowsheet.project} ELSE {})

\* New() and Open() return a handle different from every handle still held
FreshProject(s) ==
    Project(CHOOSE n \in 1..4 :
              /\ Project(n) \notin LiveProjects(s)
              /\ \A m \in 1..(n - 1) : Project(m) \in LiveProjects(s))

\* the stencils among the first k documents, keyed by doc.Name
StencilsOf(docs, k) == {docs[j].Name : j \in {i \in 1..k : docs[i].Type = 2}}

\* if state.with_gui: visio, vpage and the stencil loop
\* (promax_server.py 192-199 and 581-588)
load_gui_trace(s, docs) ==
    LET s1 == [s EXCEPT !.visio = VisioApp]
        s2 == [s1 EXCEPT !.vpage = VisioPage(s.flowsheet)]
    IN  <<Step("pmx.VisioApp", s1), Step("flowsheet.VisioPage", s2),
          Step("visio.Documents.Count", s2)>>
        \o [i \in 1..Len(docs) |->
              Step("visio.Documents(i)",
                   [s2 EXCEPT !.stencils = s.stencils \cup StencilsOf(docs, i)])]

\* ---------------------------------------------------------------------
\* connect_promax
\* ---------------------------------------------------------------------
ArgOr(args, key, default) == IF key \in DOMAIN args THEN args[key] ELSE default

connect_promax_trace(s, args) ==
    LET with_gui == ArgOr(args, "with_gui", TRUE)
        s1 == IF with_gui THEN [s EXCEPT !.pmx = Dispatch("ProMax.ProMaxOutOfProc")]
                          ELSE [s EXCEPT !.pmx = Dispatch("ProMax.ProMax")]
        s2 == [s1 EXCEPT !.with_gui = with_gui]
    IN  <<Step("gencache.EnsureDispatch", s2),
          Step("pmx.Version.Major", s2), Step("pmx.Version.Minor", s2)>>

\* importFails: `from win32com.client import gencache` raises
connect_promax_tool(s, args, importFails, failAt) ==
    LET with_gui == ArgOr(args, "with_gui", TRUE)
        mode == IF with_gui THEN "GUI" ELSE "background"
    IN  IF importFails
        THEN Outcome(s, _result(Text(ErrorPrefix, "Failed to connect to ProMax",
                                     <<"import win32com.client">>)), <<>>, <<>>)
        ELSE TryExcept(s, connect_promax_trace(s, args), failAt,
                       _result(Text(NoPrefix, "Connected to ProMax", <<mode>>)),
                       "Failed to connect to ProMax")

\* ---------------------------------------------------------------------
\* create_project
\* ---------------------------------------------------------------------
NotConnected ==
    _result(Text(ErrorPrefix, "Not connected to ProMax. Call connect_promax first.", <<>>))

\* newProject: the handle pmx.New() returns
create_project_trace(s, args, newProject, docs) ==
    LET s1 == [s EXCEPT !.project = newProject]
        s2 == [s1 EXCEPT !.flowsheet = Flowsheet(newProject)]
    IN  <<Step("pmx.New", s1), Step("project.Flowsheets.Add", s2)>>
        \o (IF s.with_gui THEN load_gui_trace(s2, docs) ELSE <<>>)

create_project_tool(s, args, newProject, docs, failAt) ==
    IF ~is_connected(s)
    THEN Outcome(s, NotConnected, <<>>, <<>>)
    ELSE TryExcept(s, create_project_trace(s, args, newProject, docs), failAt,
                   _result(Text(NoPrefix, "Created project with flowsheet",
                                <<ArgOr(args, "flowsheet_name", "Main")>>)),
                   "Failed to create project")

\* ---------------------------------------------------------------------
\* close_project
\* ---------------------------------------------------------------------
close_project_trace(s) == <<Step("project.Close", reset(s))>>

\* close_project reporting the absent project as an error, as save_project does
close_project_tool_erroring(s, failAt) ==
    IF s.project = None
    THEN Outcome(s, _result(Text(ErrorPrefix, "No project to close.", <<>>)), <<>>, <<>>)
    ELSE TryExcept(s, close_project_trace(s), failAt,
                   _result(Text(NoPrefix, "Project closed successfully", <<>>)),
                   "Failed to close project")

close_project_tool(s, failAt) ==
    IF s.project = None
    THEN Outcome(s, _result(Text(NoPrefix, "No project to close.", <<>>)), <<>>, <<>>)
    ELSE TryExcept(s, close_project_trace(s), failAt,
                   _result(Text(NoPrefix, "Project closed successfully", <<>>)),
                   "Failed to close project")

\* ---------------------------------------------------------------------
\* open_project
\* ---------------------------------------------------------------------
\* newProject: the handle pmx.Open() returns; count: its Flowsheets.Count
open_project_trace(s, args, newProject, count, docs) ==
    LET s1 == [s EXCEPT !.project = newProject]
        s2 == [s1 EXCEPT !.flowsheet = Flowsheet(newProject)]
    IN  <<Step("pmx.Open", s1), Step("project.Flowsheets.Count", s1)>>
        \o (IF count > 0
            THEN <<Step("project.Flowsheets(0)", s2)>>
                 \o (IF s.with_gui THEN load_gui_trace(s2, docs) ELSE <<>>)
            ELSE <<>>)

\* the count formatted into the result is read again after the body
open_project_tool(s, args, newProject, count, docs, failAt) ==
    IF ~is_connected(s)
    THEN Outcome(s, NotConnected, <<>>, <<>>)
    ELSE LET body == open_project_trace(s, args, newProject, count, docs)
             trace == body \o <<Step("project.Flowsheets.Count",
                                     StateAfter(s, body, Len(body)))>>
         IN  TryExcept(s, trace, failAt,
                       _result(Text(NoPrefix, "Opened project",
                                    <<ArgOr(args, "filepath", None), count>>)),
                       "Failed to open project")

\* ---------------------------------------------------------------------
\* Numbers: Python floats are modelled as exact rationals n/d in lowest
\* terms with d > 0
\* ---------------------------------------------------------------------
Abs(x) == IF x < 0 THEN -x ELSE x

RECURSIVE GCD(_, _)
GCD(a, b) == IF b = 0 THEN a ELSE GCD(b, a % b)

Num(n, d) ==
    LET g == GCD(Abs(n), Abs(d))
        sgn == IF d < 0 THEN -1 ELSE 1
    IN  [n |-> sgn * (n \div g), d |-> sgn * (d \div g)]

Add(a, b) == Num(a.n * b.d + b.n * a.d, a.d * b.d)
Sub(a, b) == Num(a.n * b.d - b.n * a.d, a.d * b.d)
Mul(a, b) == Num(a.n * b.n, a.d * b.d)
Div(a, b) == Num(a.n * b.d, a.d * b.n)
Gt(a, b) == a.n * b.d > b.n * a.d
AbsNum(a) == Num(Abs(a.n), a.d)
Whole(k) == Num(k, 1)

\* ---------------------------------------------------------------------
\* Unit conversion
\* ---------------------------------------------------------------------
UnitTypes == {"temperature", "pressure", "flow"}

\* the keys of UNIT_CONVERSIONS[unit_type]
UnitsOf(unit_type) ==
    CASE unit_type = "temperature" -> {"K", "C", "F", "R"}
      [] unit_type = "pressure" -> {"Pa", "kPa", "bar", "atm", "psi"}
      [] unit_type = "flow" -> {"mol/s", "kmol/hr", "kg/s", "kg/hr"}

\* the table with the Rankine factor inverted
UNIT_CONVERSIONS_rankine_inverted(unit_type, unit, x) ==
    CASE unit_type = "temperature" /\ unit = "K" -> x
      [] unit_type = "temperature" /\ unit = "C" -> Add(x, Num(27315, 100))
      [] unit_type = "temperature" /\ unit = "F" ->
            Add(Div(Mul(Sub(x, Whole(32)), Whole(5)), Whole(9)), Num(27315, 100))
      [] unit_type = "temperature" /\ unit = "R" -> Div(Mul(x, Whole(9)), Whole(5))
      [] unit_type = "pressure" /\ unit = "Pa" -> x
      [] unit_type = "pressure" /\ unit = "kPa" -> Mul(x, Whole(1000))
      [] unit_type = "pressure" /\ unit = "bar" -> Mul(x, Whole(100000))
      [] unit_type = "pressure" /\ unit = "atm" -> Mul(x, Whole(101325))
      [] unit_type = "pressure" /\ unit = "psi" -> Mul(x, Num(689476, 100))
      [] unit_type = "flow" /\ unit = "mol/s" -> x
      [] unit_type = "flow" /\ unit = "kmol/hr" -> Div(Mul(x, Whole(1000)), Whole(3600))
      [] unit_type = "flow" /\ unit = "kg/s" -> x
      [] unit_type = "flow" /\ unit = "kg/hr" -> Div(x, Whole(3600))

\* UNIT_CONVERSIONS[unit_type][unit](x)
UNIT_CONVERSIONS(unit_type, unit, x) ==
    CASE unit_type = "temperature" /\ unit = "K" -> x
      [] unit_type = "temperature" /\ unit = "C" -> Add(x, Num(27315, 100))
      [] unit_type = "temperature" /\ unit = "F" ->
            Add(Div(Mul(Sub(x, Whole(32)), Whole(5)), Whole(9)), Num(27315, 100))
      [] unit_type = "temperature" /\ unit = "R" -> Div(Mul(x, Whole(5)), Whole(9))
      [] unit_type = "pressure" /\ unit = "Pa" -> x
      [] unit_type = "pressure" /\ unit = "kPa" -> Mul(x, Whole(1000))
      [] unit_type = "pressure" /\ unit = "bar" -> Mul(x, Whole(100000))
      [] unit_type = "pressure" /\ unit = "atm" -> Mul(x, Whole(101325))
      [] unit_type = "pressure" /\ unit = "psi" -> Mul(x, Num(689476, 100))
      [] unit_type = "flow" /\ unit = "mol/s" -> x
      [] unit_type = "flow" /\ unit = "kmol/hr" -> Div(Mul(x, Whole(1000)), Whole(3600))
      [] unit_type = "flow" /\ unit = "kg/s" -> x
      [] unit_type = "flow" /\ unit = "kg/hr" -> Div(x, Whole(3600))

\* convert_units looking the unit up under every unit type
convert_units_any_type(value, unit, unit_type) ==
    IF unit_type \notin UnitTypes
    THEN [raised |-> "ValueError", msg |-> "Unknown unit type", info |-> <<unit_type>>]
    ELSE IF \A ut \in UnitTypes : unit \notin UnitsOf(ut)
    THEN [raised |-> "ValueError", msg |-> "Unknown unit", info |-> <<unit_type, unit>>]
    ELSE LET ut == CHOOSE ut \in UnitTypes : unit \in UnitsOf(ut)
         IN  [raised |-> "", value |-> UNIT_CONVERSIONS(ut, unit, value)]

\* convert_units: the value returned, or the ValueError raised
convert_units(value, unit, unit_type) ==
    IF unit_type \notin UnitTypes
    THEN [raised |-> "ValueError", msg |-> "Unknown unit type", info |-> <<unit_type>>]
    ELSE IF unit \notin UnitsOf(unit_type)
    THEN [raised |-> "ValueError", msg |-> "Unknown unit", info |-> <<unit_type, unit>>]
    ELSE [raised |-> "", value |-> UNIT_CONVERSIONS(unit_type, unit, value)]

\* PHASE_PROPS
PHASE_PROPS(name) ==
    CASE name = "temperature" -> 0
      [] name = "pressure" -> 1
      [] name = "molar_flow" -> 16
      [] name = "mass_flow" -> 17

\* ---------------------------------------------------------------------
\* Flowsheet-scoped tools
\* ---------------------------------------------------------------------
NoFlowsheet ==
    _result(Text(ErrorPrefix, "No flowsheet. Create a project first.", <<>>))

\* a Python str argument that may hold commas: the pieces between them
Str(pieces) == [type |-> "str", pieces |-> pieces]
IsStr(v) == v.type = "str"

\* a Python list argument
List(items) == [type |-> "list", items |-> items]

\* c.strip()
strip(c) ==
    CASE c = " Ethane" -> "Ethane"
      [] c = " Ethane=0.5" -> "Ethane=0.5"
      [] OTHER -> c

\* add_components: the list the loop iterates over (lines 222-230).  A
\* components argument is a list of names or a str.
add_components_list(args) ==
    LET components == ArgOr(args, "components", List(<<>>))
    IN  IF IsStr(components)
        THEN IF Len(components.pieces) > 1
             THEN [i \in 1..Len(components.pieces) |-> strip(components.pieces[i])]
             ELSE components.pieces
        ELSE components.items

\* rejected: the positions of the list whose env.Components.Add raises
\* (caught by the inner try, lines 237-241)
add_components_trace(s, args, rejected) ==
    LET components == add_components_list(args)
    IN  <<Step("flowsheet.Environment", s)>>
        \o [i \in 1..Len(components) |->
              IF i \in rejected
              THEN Caught(Step("env.Components.Add", s))
              ELSE Caught(StepW("env.Components.Add", s,
                                [op |-> "Components.Add", name |-> components[i]]))]

SelectSeq2(seq, idx) == [i \in 1..Len(idx) |-> seq[idx[i]]]

RECURSIVE Indices(_, _, _)
\* the positions 1..n, in order, that are (keep) or are not in rejected
Indices(n, rejected, keep) ==
    IF n = 0 THEN <<>>
    ELSE Indices(n - 1, rejected, keep)
         \o (IF (n \in rejected) = keep THEN <<n>> ELSE <<>>)

add_components_tool(s, args, rejected, failAt) ==
    IF ~has_flowsheet(s)
    THEN Outcome(s, NoFlowsheet, <<>>, <<>>)
    ELSE LET components == add_components_list(args)
             trace == add_components_trace(s, args, rejected)
             added == SelectSeq2(components, Indices(Len(components), rejected, FALSE))
             failed == SelectSeq2(components, Indices(Len(components), rejected, TRUE))
         IN  TryExcept(s, trace, failAt,
                       _result(Text(NoPrefix, "Added components", <<added, failed>>)),
                       "Failed to add components")

\* create_stream with the shape registered before it is named
create_stream_trace_registering_early(s, args) ==
    LET name == ArgOr(args, "name", NoName)
        registered == [s EXCEPT !.stream_shapes =
                          (name :> Shape("Process Stream")) @@ s.stream_shapes]
    IN  IF s.with_gui /\ s.vpage # None /\ "Streams.vss" \notin s.stencils
        THEN <<>>
        ELSE IF s.with_gui /\ s.vpage # None
        THEN <<Step("stencil.Masters", s), Step("vpage.Drop", registered),
               Step("shape.Name=", registered)>>
        ELSE <<StepW("flowsheet.CreatePStream", s,
                     [op |-> "CreatePStream", name |-> name])>>

\* create_stream.  The trace is empty when the handler returns before its
\* first call.
create_stream_trace(s, args) ==
    LET name == ArgOr(args, "name", NoName)
    IN  IF s.with_gui /\ s.vpage # None /\ "Streams.vss" \notin s.stencils
        THEN <<>>
        ELSE IF s.with_gui /\ s.vpage # None
        THEN <<Step("stencil.Masters", s), Step("vpage.Drop", s),
               Step("shape.Name=",
                    [s EXCEPT !.stream_shapes =
                        (name :> Shape("Process Stream")) @@ s.stream_shapes])>>
        ELSE <<StepW("flowsheet.CreatePStream", s,
                     [op |-> "CreatePStream", name |-> name])>>

create_stream_tool(s, args, failAt) ==
    LET name == ArgOr(args, "name", NoName)
    IN  IF ~has_flowsheet(s)
        THEN Outcome(s, NoFlowsheet, <<>>, <<>>)
        ELSE IF s.with_gui /\ s.vpage # None /\ "Streams.vss" \notin s.stencils
        THEN Outcome(s, _result(Text(ErrorPrefix, "Stencil not loaded.", <<"Streams.vss">>)),
                     <<>>, <<>>)
        ELSE TryExcept(s, create_stream_trace(s, args), failAt,
                       _result(Text(NoPrefix, "Created stream",
                                    <<name, IF s.with_gui /\ s.vpage # None
                                            THEN "with Visio shape" ELSE "data only">>)),
                       "Failed to create stream")

\* set_stream_properties
HasValue(args, key) == key \in DOMAIN args /\ args[key] # None

PropertyWrite(stream, prop, value) ==
    [op |-> "Properties.Value", stream |-> stream, prop |-> PHASE_PROPS(prop), value |-> value]

set_stream_properties_trace(s, args) ==
    LET name == ArgOr(args, "stream_name", NoName)
    IN  <<Step("flowsheet.PStreams", s), Step("stream.Phases", s)>>
        \o (IF HasValue(args, "temperature_c")
            THEN <<StepW("phase.Properties(temperature).Value=", s,
                         PropertyWrite(name, "temperature",
                            convert_units(args.temperature_c, "C", "temperature").value))>>
            ELSE <<>>)
        \o (IF HasValue(args, "pressure_kpa")
            THEN <<StepW("phase.Properties(pressure).Value=", s,
                         PropertyWrite(name, "pressure",
                            convert_units(args.pressure_kpa, "kPa", "pressure").value))>>
            ELSE <<>>)
        \o (IF HasValue(args, "molar_flow_kmol_hr")
            THEN <<StepW("phase.Properties(molar_flow).Value=", s,
                         PropertyWrite(name, "molar_flow",
                            convert_units(args.molar_flow_kmol_hr, "kmol/hr", "flow").value))>>
            ELSE <<>>)

set_stream_properties_tool(s, args, failAt) ==
    IF ~has_flowsheet(s)
    THEN Outcome(s, NoFlowsheet, <<>>, <<>>)
    ELSE TryExcept(s, set_stream_properties_trace(s, args), failAt,
                   _result(Text(NoPrefix, "Set properties",
                                <<ArgOr(args, "stream_name", NoName),
                                  {k \in {"temperature_c", "pressure_kpa", "molar_flow_kmol_hr"} :
                                      HasValue(args, k)}>>)),
                   "Failed to set stream properties")

\* ---------------------------------------------------------------------
\* agent/core.py: the set_stream_properties tool the agent's own MCP server
\* registers.  g: the module globals _promax_app, _promax_project,
\* _promax_flowsheet.
\* ---------------------------------------------------------------------
CoreGlobals(app, project, flowsheet) ==
    [app |-> app, project |-> project, flowsheet |-> flowsheet]

\* stream.<attr> = value
AttributeWrite(stream, attr, value) ==
    [op |-> attr, stream |-> stream, value |-> value]

\* a key present with the value None: the arithmetic on it raises TypeError
\* before the assignment (lines 295, 300)
core_none_operand(args) ==
    \/ "temperature_c" \in DOMAIN args /\ args.temperature_c = None
    \/ "pressure_kpa" \in DOMAIN args /\ args.pressure_kpa = None

\* the calls up to the first None operand, or all of them
core_set_stream_properties_trace(g, args) ==
    LET name == ArgOr(args, "stream_name", NoName)
        t_none == "temperature_c" \in DOMAIN args /\ args.temperature_c = None
        p_none == "pressure_kpa" \in DOMAIN args /\ args.pressure_kpa = None
    IN  <<Step("flowsheet.Streams.Item", g)>>
        \o (IF "temperature_c" \in DOMAIN args /\ ~t_none
            THEN <<StepW("stream.Temperature=", g,
                         AttributeWrite(name, "Temperature",
                                        Add(args.temperature_c, Num(27315, 100))))>>
            ELSE <<>>)
        \o (IF "pressure_kpa" \in DOMAIN args /\ ~t_none /\ ~p_none
            THEN <<StepW("stream.Pressure=", g,
                         AttributeWrite(name, "Pressure",
                                        Mul(args.pressure_kpa, Whole(1000))))>>
            ELSE <<>>)
        \o (IF "molar_flow_kmol_hr" \in DOMAIN args /\ ~core_none_operand(args)
            THEN <<StepW("stream.MolarFlow=", g,
                         AttributeWrite(name, "MolarFlow", args.molar_flow_kmol_hr))>>
            ELSE <<>>)
        \o (IF "mass_flow_kg_hr" \in DOMAIN args /\ ~core_none_operand(args)
            THEN <<StepW("stream.MassFlow=", g,
                         AttributeWrite(name, "MassFlow", args.mass_flow_kg_hr))>>
            ELSE <<>>)

core_set_stream_properties_tool(g, args, failAt) ==
    LET trace == core_set_stream_properties_trace(g, args)
    IN  IF g.flowsheet = None
        THEN Outcome(g, _result(Text(ErrorPrefix, "No flowsheet. Call create_project first.",
                                     <<>>)), <<>>, <<>>)
        ELSE IF failAt = 0 /\ core_none_operand(args)
        THEN Outcome(g, _result(Text(ErrorPrefix, "Error setting stream properties",
                                     <<"TypeError">>)),
                     CallNames(trace), WritesOf(trace, Len(trace)))
        ELSE TryExcept(g, trace, failAt,
                       _result(Text(NoPrefix, "Set properties for",
                                    <<ArgOr(args, "stream_name", NoName),
                                      DOMAIN args \cap {"temperature_c", "pressure_kpa",
                                                        "molar_flow_kmol_hr",
                                                        "mass_flow_kg_hr"}>>)),
                       "Error setting stream properties")

\* ---------------------------------------------------------------------
\* set_stream_composition
\* ---------------------------------------------------------------------
\* A Python dict is the sequence of its items in insertion order, keys
\* unique.
Item(k, v) == [k |-> k, v |-> v]
Dict(items) == [type |-> "dict", items |-> items]
IsDict(v) == v.type = "dict"

Keys(items) == {items[i].k : i \in 1..Len(items)}

\* d[k] = v on the items of d
SetItem(items, k, v) ==
    IF k \in Keys(items)
    THEN [i \in 1..Len(items) |-> IF items[i].k = k THEN Item(k, v) ELSE items[i]]
    ELSE Append(items, Item(k, v))

\* item.split('=')
split_eq(item) ==
    CASE item = "Methane=0.5" -> <<"Methane", "0.5">>
      [] item = "Ethane=0.5" -> <<"Ethane", "0.5">>
      [] item = " Ethane=0.5" -> <<" Ethane", "0.5">>
      [] item = "Methane=0.7" -> <<"Methane", "0.7">>
      [] item = "Xenon=abc" -> <<"Xenon", "abc">>
      [] OTHER -> <<item>>

\* float(v): the number, or None when it raises ValueError
float(v) ==
    CASE v = "0.5" -> Num(1, 2)
      [] v = "0.7" -> Num(7, 10)
      [] OTHER -> None

\* composition.strip().startswith('{') and json.loads(composition) for the
\* JSON texts of the model: the dict of the object, or None when
\* json.loads raises
startswith_brace(pieces) == pieces \in {<<"{\"Methane\": 1.0}">>, <<"{\"Methane\": 0.5">>}

json_loads(pieces) ==
    CASE pieces = <<"{\"Methane\": 1.0}">> -> Dict(<<Item("Methane", Num(1, 1))>>)
      [] OTHER -> None

RECURSIVE dict_of_pairs(_, _)
\* dict(item.split('=') for item in composition.split(',')), first k items:
\* None when an item does not split in two
dict_of_pairs(pieces, k) ==
    IF k = 0 THEN Dict(<<>>)
    ELSE LET rest == dict_of_pairs(pieces, k - 1)
             parts == split_eq(pieces[k])
         IN  IF rest = None \/ Len(parts) # 2 THEN None
             ELSE Dict(SetItem(rest.items, parts[1], parts[2]))

RECURSIVE strip_float(_, _)
\* {k.strip(): float(v) for k, v in composition.items()}, first k items
strip_float(items, k) ==
    IF k = 0 THEN Dict(<<>>)
    ELSE LET rest == strip_float(items, k - 1)
             v == float(items[k].v)
         IN  IF rest = None \/ v = None THEN None
             ELSE Dict(SetItem(rest.items, strip(items[k].k), v))

\* lines 355-369: the dict the handler goes on with, or None when
\* normalising the argument raises (a value that is neither a str nor a dict
\* raises at .values())
parse_composition(args) ==
    LET composition == ArgOr(args, "composition", Dict(<<>>))
    IN  IF IsStr(composition)
        THEN IF startswith_brace(composition.pieces)
             THEN json_loads(composition.pieces)
             ELSE LET d == dict_of_pairs(composition.pieces, Len(composition.pieces))
                  IN  IF d = None THEN None ELSE strip_float(d.items, Len(d.items))
        ELSE IF IsDict(composition) THEN composition
        ELSE None

RECURSIVE sum_values(_, _)
\* sum(composition.values()), first k items
sum_values(items, k) ==
    IF k = 0 THEN Whole(0) ELSE Add(sum_values(items, k - 1), items[k].v)

\* the sum test without abs()
sum_invalid_one_sided(total) == Gt(Sub(total, Whole(1)), Num(1, 1000))

\* abs(total - 1.0) > 0.001
sum_invalid(total) == Gt(AbsNum(Sub(total, Whole(1))), Num(1, 1000))

\* f"{total:.4f}": total rounded to four decimals (ties to even)
fmt4(total) ==
    LET q == total.n * 10000
        lo == q \div total.d
        r == q - lo * total.d
        up == 2 * r > total.d \/ (2 * r = total.d /\ lo % 2 = 1)
    IN  Num(IF up THEN lo + 1 ELSE lo, 10000)

\* s.lower()
lower(name) ==
    CASE name = "Methane" -> "methane"
      [] name = "METHANE" -> "methane"
      [] name = "Ethane" -> "ethane"
      [] name = " Ethane" -> " ethane"
      [] name = "Xenon" -> "xenon"
      [] name = "Component_0" -> "component_0"
      [] name = "Component_1" -> "component_1"
      [] name = "Component_2" -> "component_2"
      [] OTHER -> name

\* f"Component_{i}", i counted from 0
component_fallback(i) ==
    CASE i = 0 -> "Component_0"
      [] i = 1 -> "Component_1"
      [] i = 2 -> "Component_2"
      [] OTHER -> "Component_n"

\* lines 383-391: env_comp_names; unnamed: the positions (from 1) whose
\* name cannot be read
env_comp_names(env, unnamed) ==
    [i \in 1..Len(env) |-> IF i \in unnamed THEN component_fallback(i - 1) ELSE env[i]]

\* the position of the last registered name equal to user_name ignoring
\* case, 0 when there is none
last_match(user_name, names) ==
    LET hits == {i \in 1..Len(names) : lower(user_name) = lower(names[i])}
    IN  IF hits = {} THEN 0 ELSE CHOOSE i \in hits : \A j \in hits : i >= j

\* the position (from 1) of the first registered name equal to user_name
\* ignoring case, 0 when there is none
first_match(user_name, names) ==
    LET hits == {i \in 1..Len(names) : lower(user_name) = lower(names[i])}
    IN  IF hits = {} THEN 0 ELSE CHOOSE i \in hits : \A j \in hits : i <= j

\* the positions of every registered name equal to user_name ignoring case
all_matches(user_name, names) ==
    {i \in 1..Len(names) : lower(user_name) = lower(names[i])}

RECURSIVE every_hit(_, _, _)
\* user_name appended once for each of the first n positions that match
every_hit(user_name, names, n) ==
    IF n = 0 THEN <<>>
    ELSE every_hit(user_name, names, n - 1)
         \o (IF n \in all_matches(user_name, names) THEN <<user_name>> ELSE <<>>)

RECURSIVE resolve_without_break(_, _, _)
\* the matching loop without its break: every matching position is
\* assigned and recorded
resolve_without_break(items, k, names) ==
    IF k = 0
    THEN [comp_values |-> [i \in 1..Len(names) |-> Whole(0)],
          matched |-> <<>>, unmatched |-> <<>>]
    ELSE LET r == resolve_without_break(items, k - 1, names)
             hits == all_matches(items[k].k, names)
         IN  IF hits # {}
             THEN [r EXCEPT !.comp_values =
                               [i \in 1..Len(names) |->
                                   IF i \in hits THEN items[k].v ELSE @[i]],
                            !.matched = @ \o every_hit(items[k].k, names, Len(names))]
             ELSE [r EXCEPT !.unmatched = Append(@, items[k].k)]

RECURSIVE resolve(_, _, _)
\* lines 393-407 after the first k items of the composition
resolve(items, k, names) ==
    IF k = 0
    THEN [comp_values |-> [i \in 1..Len(names) |-> Whole(0)],
          matched |-> <<>>, unmatched |-> <<>>]
    ELSE LET r == resolve(items, k - 1, names)
             i == first_match(items[k].k, names)
         IN  IF i > 0
             THEN [r EXCEPT !.comp_values[i] = items[k].v,
                            !.matched = Append(@, items[k].k)]
             ELSE [r EXCEPT !.unmatched = Append(@, items[k].k)]

\* env.Components(i).Species.SpeciesName.Name inside the inner try (lines
\* 386-391): read, or raising and swallowed
NameRead == "env.Components(i).Species.SpeciesName.Name"
NameReadRaised == "env.Components(i).Species.SpeciesName.Name (raised)"
name_read(s, raises) == Caught(Step(IF raises THEN NameReadRaised ELSE NameRead, s))

\* the calls up to the n_comps test (lines 376-378)
set_stream_composition_head(s) ==
    <<Step("flowsheet.PStreams", s), Step("flowsheet.Environment", s),
      Step("env.Components.Count", s)>>

\* the composition reaches the sum test and passes it
composition_valid(args) ==
    LET composition == parse_composition(args)
    IN  /\ composition # None
        /\ ~sum_invalid(sum_values(composition.items, Len(composition.items)))

\* the trace without the n_comps == 0 return
set_stream_composition_trace_unguarded(s, args, env, unnamed) ==
    LET name == ArgOr(args, "stream_name", NoName)
        items == parse_composition(args).items
        r == resolve(items, Len(items), env_comp_names(env, unnamed))
    IN  IF ~composition_valid(args) THEN <<>>
        ELSE set_stream_composition_head(s)
             \o [i \in 1..Len(env) |->
                   name_read(s, i \in unnamed)]
             \o <<Step("stream.Phases", s), Step("phase.Composition", s),
                  StepW("comp_obj.SIValues=", s,
                        [op |-> "SIValues", stream |-> name, values |-> r.comp_values])>>

\* env: Environment.Components of the flowsheet.  The trace is empty when
\* the handler returns before its first call and ends at the n_comps test
\* when no component is registered.
set_stream_composition_trace(s, args, env, unnamed) ==
    LET name == ArgOr(args, "stream_name", NoName)
        items == parse_composition(args).items
        names == env_comp_names(env, unnamed)
        r == resolve(items, Len(items), names)
    IN  IF ~composition_valid(args) THEN <<>>
        ELSE IF Len(env) = 0 THEN set_stream_composition_head(s)
        ELSE set_stream_composition_head(s)
             \o [i \in 1..Len(env) |->
                   name_read(s, i \in unnamed)]
             \o <<Step("stream.Phases", s), Step("phase.Composition", s),
                  StepW("comp_obj.SIValues=", s,
                        [op |-> "SIValues", stream |-> name, values |-> r.comp_values])>>

\* the try statement with an unmatched key treated as an error before the
\* write
set_stream_composition_try_strict(s, args, env, unnamed, failAt) ==
    LET name == ArgOr(args, "stream_name", NoName)
        composition == parse_composition(args)
        items == composition.items
        total == sum_values(items, Len(items))
        r == resolve(items, Len(items), env_comp_names(env, unnamed))
        trace == set_stream_composition_trace(s, args, env, unnamed)
    IN  IF composition = None
        THEN Outcome(s, _result(Text(ErrorPrefix, "Failed to set composition",
                                     <<"normalising the composition">>)), <<>>, <<>>)
        ELSE IF sum_invalid(total)
        THEN Outcome(s, _result(Text(ErrorPrefix, "Composition must sum to 1.0, got",
                                     <<fmt4(total)>>)), <<>>, <<>>)
        ELSE IF Len(env) > 0 /\ r.unmatched # <<>> /\ failAt = 0
        THEN Outcome(s, _result(Text(ErrorPrefix, "Unmatched components", <<r.unmatched>>)),
                     SubSeq(CallNames(trace), 1, 3 + Len(env)), <<>>)
        ELSE TryExcept(s, trace, failAt,
                       IF Len(env) = 0
                       THEN _result(Text(ErrorPrefix,
                                "No components in environment. Add components first.", <<>>))
                       ELSE _result(Text(NoPrefix, "Set composition",
                                         <<name, Len(r.matched), r.unmatched>>)),
                       "Failed to set composition")

\* the try statement of the handler (lines 354-423)
set_stream_composition_try(s, args, env, unnamed, failAt) ==
    LET name == ArgOr(args, "stream_name", NoName)
        composition == parse_composition(args)
        items == composition.items
        total == sum_values(items, Len(items))
        r == resolve(items, Len(items), env_comp_names(env, unnamed))
    IN  IF composition = None
        THEN Outcome(s, _result(Text(ErrorPrefix, "Failed to set composition",
                                     <<"normalising the composition">>)), <<>>, <<>>)
        ELSE IF sum_invalid(total)
        THEN Outcome(s, _result(Text(ErrorPrefix, "Composition must sum to 1.0, got",
                                     <<fmt4(total)>>)), <<>>, <<>>)
        ELSE TryExcept(s, set_stream_composition_trace(s, args, env, unnamed), failAt,
                       IF Len(env) = 0
                       THEN _result(Text(ErrorPrefix,
                                "No components in environment. Add components first.", <<>>))
                       ELSE _result(Text(NoPrefix, "Set composition",
                                         <<name, Len(r.matched), r.unmatched>>)),
                       "Failed to set composition")

\* the handler with the composition normalised and validated before the
\* flowsheet test
set_stream_composition_tool_validating_first(s, args, env, unnamed, failAt) ==
    IF ~composition_valid(args)
    THEN set_stream_composition_try(s, args, env, unnamed, failAt)
    ELSE IF s.flowsheet = None
    THEN Outcome(s, NoFlowsheet, <<>>, <<>>)
    ELSE set_stream_composition_try(s, args, env, unnamed, failAt)

set_stream_composition_tool(s, args, env, unnamed, failAt) ==
    IF ~has_flowsheet(s)
    THEN Outcome(s, NoFlowsheet, <<>>, <<>>)
    ELSE set_stream_composition_try(s, args, env, unnamed, failAt)

\* ---------------------------------------------------------------------
\* flash_stream, get_stream_results, run_simulation, save_project
\* ---------------------------------------------------------------------
flash_stream_trace(s, args) ==
    <<Step("flowsheet.PStreams", s),
      StepW("stream.Flash", s,
            [op |-> "Flash", stream |-> ArgOr(args, "stream_name", NoName)])>>

flash_stream_tool(s, args, failAt) ==
    IF ~has_flowsheet(s)
    THEN Outcome(s, NoFlowsheet, <<>>, <<>>)
    ELSE TryExcept(s, flash_stream_trace(s, args), failAt,
                   _result(Text(NoPrefix, "Flash calculation completed",
                                <<ArgOr(args, "stream_name", NoName)>>)),
                   "Flash calculation failed")

get_stream_results_trace(s, args) ==
    <<Step("flowsheet.PStreams", s), Step("stream.Phases", s),
      Step("phase.Properties(temperature).Value", s),
      Step("phase.Properties(pressure).Value", s),
      Step("phase.Properties(molar_flow).Value", s)>>

\* `v - 273.15 if v else None` and the like: a falsy reading gives None
IfTruthy(v, converted) == IF v = None \/ v = Whole(0) THEN None ELSE converted

\* get_stream_results, the simulator returning temp_k, pres_pa and molar_flow
get_stream_results_of(s, args, temp_k, pres_pa, molar_flow, failAt) ==
    IF ~has_flowsheet(s)
    THEN Outcome(s, NoFlowsheet, <<>>, <<>>)
    ELSE TryExcept(s, get_stream_results_trace(s, args), failAt,
                   _result(Text(NoPrefix, "results",
                       <<ArgOr(args, "stream_name", NoName),
                         IfTruthy(temp_k, Sub(temp_k, Num(27315, 100))),
                         IfTruthy(pres_pa, Div(pres_pa, Whole(1000))),
                         IfTruthy(molar_flow,
                                  Div(Mul(molar_flow, Whole(3600)), Whole(1000)))>>)),
                   "Failed to get stream results")

\* reading: the value the simulator returns for each of the three properties
get_stream_results_tool(s, args, reading, failAt) ==
    get_stream_results_of(s, args, reading, reading, reading, failAt)

run_simulation_trace(s) ==
    <<Step("flowsheet.Solver", s), StepW("solver.Solve", s, [op |-> "Solve"]),
      Step("solver.LastSolverExecStatus", s)>>

\* status_code: the value of solver.LastSolverExecStatus
run_simulation_tool(s, status_code, failAt) ==
    IF ~has_flowsheet(s)
    THEN Outcome(s, NoFlowsheet, <<>>, <<>>)
    ELSE TryExcept(s, run_simulation_trace(s), failAt,
                   IF status_code >= 1
                   THEN _result(Text(NoPrefix, "Simulation converged successfully", <<>>))
                   ELSE _result(Text(NoPrefix, "Simulation did not converge. Status code:",
                                     <<status_code>>)),
                   "Simulation failed")

save_project_trace(s, args) ==
    <<StepW("project.SaveAs", s,
            [op |-> "SaveAs", filepath |-> ArgOr(args, "filepath", NoName)])>>

save_project_tool(s, args, failAt) ==
    IF s.project = None
    THEN Outcome(s, _result(Text(ErrorPrefix, "No project to save.", <<>>)), <<>>, <<>>)
    ELSE TryExcept(s, save_project_trace(s, args), failAt,
                   _result(Text(NoPrefix, "Project saved to",
                                <<ArgOr(args, "filepath", NoName)>>)),
                   "Failed to save project")

\* ---------------------------------------------------------------------
\* create_block
\* ---------------------------------------------------------------------
\* the keys of BLOCK_TYPES
BLOCK_TYPES ==
    {"separator", "staged_column", "mixer", "pump", "compressor",
     "heat_exchanger", "valve", "reactor", "divider", "pipeline"}

\* BLOCK_TYPES[block_type]
BLOCK_TYPE_ID(block_type) ==
    CASE block_type = "separator" -> 12
      [] block_type = "staged_column" -> 15
      [] block_type = "mixer" -> 5
      [] block_type = "pump" -> 9
      [] block_type = "compressor" -> 0
      [] block_type = "heat_exchanger" -> 13
      [] block_type = "valve" -> 3
      [] block_type = "reactor" -> 18
      [] block_type = "divider" -> 2
      [] block_type = "pipeline" -> 7

\* the keys of BLOCK_STENCILS
BLOCK_STENCILS ==
    {"separator", "separator_3phase", "staged_column", "mixer", "pump",
     "compressor", "heat_exchanger", "valve"}

\* BLOCK_STENCILS[block_type]: (stencil, master)
BLOCK_STENCIL(block_type) ==
    CASE block_type = "separator" -> <<"Separators.vss", "2 Phase Separator - Vertical">>
      [] block_type = "separator_3phase" -> <<"Separators.vss", "3 Phase Separator">>
      [] block_type = "staged_column" -> <<"Column.vss", "Distill">>
      [] block_type = "mixer" -> <<"Mixer.vss", "Mixer">>
      [] block_type = "pump" -> <<"Fluid Drivers.vss", "Centrifugal Pump">>
      [] block_type = "compressor" -> <<"Fluid Drivers.vss", "Compressor">>
      [] block_type = "heat_exchanger" -> <<"Exchangers.vss", "Shell and Tube Exchanger">>
      [] block_type = "valve" -> <<"Valves.vss", "JT Valve">>

\* block_type.lower() on the block types of the model
lower_block_type(block_type) ==
    CASE block_type = "Separator" -> "separator"
      [] block_type = "InvalidType" -> "invalidtype"
      [] OTHER -> block_type

gui_mode(s) == s.with_gui /\ s.vpage # None

\* block_name: the shape.Name of the shape vpage.Drop returns
create_block_trace(s, args, block_name) ==
    LET block_type == lower_block_type(ArgOr(args, "block_type", "separator"))
        name == ArgOr(args, "name", NoName)
        shape == Shape(BLOCK_STENCIL(block_type)[2])
        tracked == (block_name :> shape) @@ s.block_shapes
    IN  IF gui_mode(s) /\ block_type \notin BLOCK_STENCILS THEN <<>>
        ELSE IF gui_mode(s) /\ BLOCK_STENCIL(block_type)[1] \notin s.stencils THEN <<>>
        ELSE IF ~gui_mode(s) /\ block_type \notin BLOCK_TYPES THEN <<>>
        ELSE IF gui_mode(s)
        THEN <<Step("stencil.Masters", s), Step("vpage.Drop", s),
               Step("shape.Name",
                    [s EXCEPT !.block_shapes =
                        IF name # NoName THEN (name :> shape) @@ tracked ELSE tracked])>>
        ELSE <<StepW("flowsheet.Blocks.Add", s,
                     [op |-> "Blocks.Add", type_id |-> BLOCK_TYPE_ID(block_type),
                      name |-> name])>>

UnknownBlockType(block_type, available) ==
    _result(Text(ErrorPrefix, "Unknown block type", <<block_type, available>>))

\* create_block looking every block type up in BLOCK_TYPES, whatever the mode
create_block_tool_one_table(s, args, block_name, failAt) ==
    LET block_type == lower_block_type(ArgOr(args, "block_type", "separator"))
        name == ArgOr(args, "name", NoName)
    IN  IF ~has_flowsheet(s)
        THEN Outcome(s, NoFlowsheet, <<>>, <<>>)
        ELSE IF block_type \notin BLOCK_TYPES
        THEN Outcome(s, UnknownBlockType(block_type, BLOCK_TYPES), <<>>, <<>>)
        ELSE IF /\ gui_mode(s) /\ block_type \in BLOCK_STENCILS
                /\ BLOCK_STENCIL(block_type)[1] \notin s.stencils
        THEN Outcome(s, _result(Text(ErrorPrefix, "Stencil not loaded.",
                                     <<BLOCK_STENCIL(block_type)[1]>>)), <<>>, <<>>)
        ELSE TryExcept(s, create_block_trace(s, args, block_name), failAt,
                       _result(Text(NoPrefix, "Created block",
                                    <<block_type, IF gui_mode(s) THEN block_name ELSE name>>)),
                       "Failed to create block")

create_block_tool(s, args, block_name, failAt) ==
    LET block_type == lower_block_type(ArgOr(args, "block_type", "separator"))
        name == ArgOr(args, "name", NoName)
    IN  IF ~has_flowsheet(s)
        THEN Outcome(s, NoFlowsheet, <<>>, <<>>)
        ELSE IF gui_mode(s) /\ block_type \notin BLOCK_STENCILS
        THEN Outcome(s, UnknownBlockType(block_type, BLOCK_STENCILS), <<>>, <<>>)
        ELSE IF gui_mode(s) /\ BLOCK_STENCIL(block_type)[1] \notin s.stencils
        THEN Outcome(s, _result(Text(ErrorPrefix, "Stencil not loaded.",
                                     <<BLOCK_STENCIL(block_type)[1]>>)), <<>>, <<>>)
        ELSE IF ~gui_mode(s) /\ block_type \notin BLOCK_TYPES
        THEN Outcome(s, UnknownBlockType(block_type, BLOCK_TYPES), <<>>, <<>>)
        ELSE TryExcept(s, create_block_trace(s, args, block_name), failAt,
                       _result(Text(NoPrefix, "Created block",
                                    <<block_type, IF gui_mode(s) THEN block_name ELSE name>>)),
                       "Failed to create block")

\* ---------------------------------------------------------------------
\* connect_stream, list_streams, list_blocks
\* ---------------------------------------------------------------------
connect_stream_trace(s, args) ==
    IF \/ ~s.with_gui
       \/ ArgOr(args, "stream_name", NoName) \notin DOMAIN s.stream_shapes
       \/ ArgOr(args, "block_name", NoName) \notin DOMAIN s.block_shapes
    THEN <<>>
    ELSE <<Step("stream_shape.Cells", s), Step("block_shape.Cells", s),
           StepW("GlueTo", s,
                 [op |-> "GlueTo", stream |-> ArgOr(args, "stream_name", NoName),
                  block |-> ArgOr(args, "block_name", NoName),
                  point |-> ArgOr(args, "connection_point", 1),
                  inlet |-> ArgOr(args, "is_inlet", TRUE)])>>

connect_stream_tool(s, args, failAt) ==
    LET stream_name == ArgOr(args, "stream_name", NoName)
        block_name == ArgOr(args, "block_name", NoName)
    IN  IF ~has_flowsheet(s)
        THEN Outcome(s, NoFlowsheet, <<>>, <<>>)
        ELSE IF ~s.with_gui
        THEN Outcome(s, _result(Text(ErrorPrefix,
                        "Stream connections require GUI mode (with_gui=true)", <<>>)),
                     <<>>, <<>>)
        ELSE IF stream_name \notin DOMAIN s.stream_shapes
        THEN Outcome(s, _result(Text(ErrorPrefix, "Stream not found. Create it first.",
                                     <<stream_name>>)), <<>>, <<>>)
        ELSE IF block_name \notin DOMAIN s.block_shapes
        THEN Outcome(s, _result(Text(ErrorPrefix, "Block not found. Create it first.",
                                     <<block_name>>)), <<>>, <<>>)
        ELSE TryExcept(s, connect_stream_trace(s, args), failAt,
                       _result(Text(NoPrefix, "Connected",
                                    <<stream_name, block_name,
                                      ArgOr(args, "connection_point", 1),
                                      IF ArgOr(args, "is_inlet", TRUE)
                                      THEN "inlet" ELSE "outlet">>)),
                       "Failed to connect stream")

\* names: the names of the collection's members, as the simulator lists them
list_trace(s, collection, names) ==
    <<Step(collection \o ".Count", s)>>
    \o [i \in 1..Len(names) |-> Step(collection \o "(i)", s)]

list_streams_tool(s, names, failAt) ==
    IF ~has_flowsheet(s)
    THEN Outcome(s, NoFlowsheet, <<>>, <<>>)
    ELSE TryExcept(s, list_trace(s, "flowsheet.PStreams", names), failAt,
                   IF names # <<>>
                   THEN _result(Text(NoPrefix, "Streams", <<Len(names), names>>))
                   ELSE _result(Text(NoPrefix, "No streams in flowsheet", <<>>)),
                   "Failed to list streams")

list_blocks_tool(s, names, failAt) ==
    IF ~has_flowsheet(s)
    THEN Outcome(s, NoFlowsheet, <<>>, <<>>)
    ELSE TryExcept(s, list_trace(s, "flowsheet.Blocks", names), failAt,
                   IF names # <<>>
                   THEN _result(Text(NoPrefix, "Blocks", <<Len(names), names>>))
                   ELSE _result(Text(NoPrefix, "No blocks in flowsheet", <<>>)),
                   "Failed to list blocks")

\* ---------------------------------------------------------------------
\* The arguments and vendor values the actions draw from
\* ---------------------------------------------------------------------
\* an argument mapping with no keys
NoArgs == <<>>

ConnectArgs == {NoArgs, [with_gui |-> FALSE]}
BackgroundArgs == {[with_gui |-> FALSE]}
CreateProjectArgs == {NoArgs}
OpenProjectArgs == {[filepath |-> "plant.pmx"]}
\* the components registered in the first flowsheet of an opened file
OpenedEnvs == {<<>>, <<"Methane">>}
AddComponentsArgs ==
    {NoArgs,
     [components |-> List(<<"Methane", "Ethane">>)],
     [components |-> Str(<<"Methane", " Ethane">>)],
     [components |-> Str(<<"Ethane">>)]}
\* the components of the session specification
BasicComponentsArgs == {[components |-> List(<<"Methane">>)]}
CreateStreamArgs == {[name |-> "S1"]}
CreateBlockArgs ==
    {NoArgs,
     [block_type |-> "Separator", name |-> "B1"],
     [block_type |-> "InvalidType", name |-> "B1"],
     [block_type |-> "reactor", name |-> "B1"],
     [block_type |-> "separator_3phase", name |-> "B1"],
     [block_type |-> "pump", name |-> "B1"]}
\* the names Visio gives a dropped block shape
AutoBlockNames == {"SEP-100"}
ConnectStreamArgs ==
    {NoArgs,
     [stream_name |-> "S1", block_name |-> "B1"],
     [stream_name |-> "S1", block_name |-> "SEP-100", connection_point |-> 2,
      is_inlet |-> FALSE]}
SetPropertiesArgs ==
    {NoArgs,
     [stream_name |-> "S1", temperature_c |-> Whole(25), pressure_kpa |-> Whole(100),
      molar_flow_kmol_hr |-> Num(36, 10)],
     [stream_name |-> "S1", temperature_c |-> None, pressure_kpa |-> Whole(0)]}
SetCompositionArgs ==
    {NoArgs,
     [stream_name |-> "S1"],
     [stream_name |-> "S1",
      composition |-> Dict(<<Item("Methane", Num(1, 2)), Item("Ethane", Num(3, 10))>>)],
     [stream_name |-> "S1",
      composition |-> Dict(<<Item("methane", Num(6, 10)), Item("Xenon", Num(4, 10))>>)],
     [stream_name |-> "S1",
      composition |-> Dict(<<Item("Methane", Num(1, 2)), Item("METHANE", Num(1, 2))>>)],
     [stream_name |-> "S1",
      composition |-> Dict(<<Item("Methane", Num(60004, 100000)),
                             Item("Ethane", Num(1, 2))>>)],
     [stream_name |-> "S1", composition |-> Str(<<"Methane=0.5", " Ethane=0.5">>)],
     [stream_name |-> "S1", composition |-> Str(<<"Methane=0.7">>)],
     [stream_name |-> "S1", composition |-> Str(<<"Methane">>)],
     [stream_name |-> "S1", composition |-> Str(<<"Xenon=abc">>)],
     [stream_name |-> "S1", composition |-> Str(<<"{\"Methane\": 1.0}">>)],
     [stream_name |-> "S1", composition |-> Str(<<"{\"Methane\": 0.5">>)],
     [stream_name |-> "S1", composition |-> List(<<"Methane">>)]}
\* the compositions of the session specification
BasicCompositionArgs ==
    {[stream_name |-> "S1",
      composition |-> Dict(<<Item("Methane", Num(1, 2)), Item("Ethane", Num(3, 10))>>)],
     [stream_name |-> "S1", composition |-> Str(<<"Methane=0.5", " Ethane=0.5">>)]}
StreamArgs == {[stream_name |-> "S1"]}
Readings == {Whole(0), Whole(300)}
StatusCodes == {0, 1}
ListedNames == {<<>>, <<"S1">>}
SaveArgs == {[filepath |-> "out.pmx"]}

\* ---------------------------------------------------------------------
\* The class ProMaxState (lines 80-102) and the module-level _state
\* ---------------------------------------------------------------------
\* a Python object, known by its identity
Object(id) == [type |-> "object", id |-> id]

\* _state = ProMaxState(), run once when the module is imported: the first
\* object allocated
_state == Object(1)

\* the class after the import: _instance is that object, initialised
ProMaxState_class == [_instance |-> _state, _initialized |-> TRUE, allocated |-> 1]

\* ProMaxState.__new__(cls): allocates only while _instance is None
ProMaxState__new__(c) ==
    IF c._instance = None
    THEN [c EXCEPT !._instance = Object(c.allocated + 1), !.allocated = @ + 1,
                   !._initialized = FALSE]
    ELSE c

\* __init__ assigning the fields on every construction
ProMaxState__init__unguarded(c, s) ==
    [cls |-> [c EXCEPT !._initialized = TRUE], st |-> ProMaxState_init]

\* ProMaxState.__init__(self) on the instance __new__ returned, whose
\* fields are s
ProMaxState__init__(c, s) ==
    IF ~c._initialized
    THEN [cls |-> [c EXCEPT !._initialized = TRUE], st |-> ProMaxState_init]
    ELSE [cls |-> c, st |-> s]

\* ---------------------------------------------------------------------
\* server/session.py: Session and SessionManager
\* ---------------------------------------------------------------------
\* the largest max_sessions a manager is constructed with
MaxSessions == 2
\* timeout_seconds of the managers of the model, in clock units
Timeout == 1
\* the clock stops here
MaxTime == 3

SessionIds == {"s1", "s2", "s3"}

\* an exception raised to the caller
Raised(kind) == [type |-> "raised", kind |-> kind]

\* Session(session_id=..., ...) created at time t
Session(session_id, t) ==
    [type |-> "Session", session_id |-> session_id, last_activity |-> t]

\* is_expired that counts the timeout itself as expired
is_expired_at_timeout(sess, timeout_seconds, t) == t - sess.last_activity >= timeout_seconds

\* Session.is_expired(timeout_seconds) at time t
is_expired(sess, timeout_seconds, t) == t - sess.last_activity > timeout_seconds

\* SessionManager(max_sessions=..., timeout_seconds=...)
SessionManager_init(max_sessions, timeout_seconds) ==
    [max_sessions |-> max_sessions, timeout_seconds |-> timeout_seconds,
     sessions |-> <<>>]

\* d.pop(k, None) / del d[k] on a dict
Without(d, k) == [x \in DOMAIN d \ {k} |-> d[x]]

\* create_session admitting one session more than max_sessions
create_session_off_by_one(m, session_id, t, mkdirFails) ==
    IF Cardinality(DOMAIN m.sessions) > m.max_sessions
    THEN [m |-> m, res |-> Raised("RuntimeError")]
    ELSE IF mkdirFails
    THEN [m |-> m, res |-> Raised("OSError")]
    ELSE [m |-> [m EXCEPT !.sessions = (session_id :> Session(session_id, t)) @@ @],
          res |-> Session(session_id, t)]

\* SessionManager.create_session(session_id) at time t; mkdirFails: the
\* working directory cannot be created
create_session(m, session_id, t, mkdirFails) ==
    IF Cardinality(DOMAIN m.sessions) >= m.max_sessions
    THEN [m |-> m, res |-> Raised("RuntimeError")]
    ELSE IF mkdirFails
    THEN [m |-> m, res |-> Raised("OSError")]
    ELSE [m |-> [m EXCEPT !.sessions = (session_id :> Session(session_id, t)) @@ @],
          res |-> Session(session_id, t)]

\* SessionManager.get_session(session_id) at time t
get_session(m, session_id, t) ==
    IF session_id \in DOMAIN m.sessions
    THEN [m |-> [m EXCEPT !.sessions[session_id].last_activity = t],
          res |-> Session(session_id, t)]
    ELSE [m |-> m, res |-> None]

\* SessionManager.destroy_session(session_id): removing the files of the
\* session may fail, which is logged
destroy_session(m, session_id) ==
    [m |-> [m EXCEPT !.sessions = Without(@, session_id)], res |-> None]

\* the expired list of one iteration of _cleanup_loop at time t
expired(m, t) ==
    {sid \in DOMAIN m.sessions : is_expired(m.sessions[sid], m.timeout_seconds, t)}

\* one iteration of _cleanup_loop after its sleep: destroy_session on every
\* expired session (no other task runs in between: destroy_session never
\* suspends)
cleanup_iteration(m, t) ==
    [m EXCEPT !.sessions = [x \in DOMAIN @ \ expired(m, t) |-> @[x]]]

\* ---------------------------------------------------------------------
\* agent/core.py: ProcAgentCore.process_message over what the agent SDK
\* delivers
\* ---------------------------------------------------------------------
\* messages of one receive_response() stream
MaxMsgs == 2

\* the ClaudeSDKClient bound by the async with
Client == [type |-> "ClaudeSDKClient"]

AssistantMessage(content) == [type |-> "AssistantMessage", content |-> content]
ResultMessage == [type |-> "ResultMessage", content |-> <<>>]
SystemMessage == [type |-> "SystemMessage", content |-> <<>>]
\* receive_response() raising instead of delivering a message
StreamRaises == [type |-> "raise", content |-> <<>>]

\* pydantic: the fields of ResultsInfo that have no default
ResultsInfo_required == {"parameters", "overall_pass"}

\* ResultsInfo(**kwargs): a required field missing is a ValidationError
ResultsInfo(kwargs) ==
    IF ResultsInfo_required \subseteq kwargs
    THEN [type |-> "ResultsInfo"]
    ELSE Raised("ValidationError")

\* AgentResponse(type=..., **kwargs): a keyword that names no field is ignored
AgentResponse(type, kwargs) ==
    [type |-> type,
     results_info |-> IF "results_info" \in DOMAIN kwargs THEN kwargs.results_info
                      ELSE None]

RECURSIVE block_responses(_)
\* the for loop over msg.content
block_responses(content) ==
    IF content = <<>> THEN <<>>
    ELSE (CASE Head(content) = "TextBlock" -> <<AgentResponse("text", <<>>)>>
            [] Head(content) = "ToolUseBlock" -> <<AgentResponse("tool_use", <<>>)>>
            [] OTHER -> <<>>)
         \o block_responses(Tail(content))

RECURSIVE receive_loop(_)
\* the async for over client.receive_response(): what it yields and
\* whether it ended by an exception
receive_loop(msgs) ==
    IF msgs = <<>> THEN [yielded |-> <<>>, raised |-> FALSE]
    ELSE LET msg == Head(msgs)
             rest == receive_loop(Tail(msgs))
             info == ResultsInfo({"converged", "result_values"})
         IN  CASE msg.type = "raise" -> [yielded |-> <<>>, raised |-> TRUE]
               [] msg.type = "AssistantMessage" ->
                    [rest EXCEPT !.yielded = block_responses(msg.content) \o @]
               [] msg.type = "ResultMessage" ->
                    IF info.type = "raised"
                    THEN [yielded |-> <<>>, raised |-> TRUE]
                    ELSE [rest EXCEPT !.yielded =
                            <<AgentResponse("results", [results |-> info])>> \o @]
               [] OTHER -> rest

\* the body of the try: entering the async with, the query, the stream,
\* leaving the async with
process_message_try(script) ==
    IF ~script.create THEN [yielded |-> <<>>, raised |-> TRUE, _client |-> None]
    ELSE IF ~script.query THEN [yielded |-> <<>>, raised |-> TRUE, _client |-> Client]
    ELSE LET r == receive_loop(script.msgs)
         IN  [yielded |-> r.yielded, raised |-> r.raised \/ ~script.exit,
              _client |-> Client]

\* process_message without its finally clause
process_message_without_finally(script) ==
    LET body == process_message_try(script)
    IN  [responses |-> body.yielded
                       \o (IF body.raised THEN <<AgentResponse("error", <<>>)>> ELSE <<>>),
         raised |-> FALSE,
         _client |-> body._client]

\* ProcAgentCore.process_message(message): the responses it yields, whether
\* it raises to its caller, and self._client when it has finished
process_message(script) ==
    LET body == process_message_try(script)
    IN  [responses |-> body.yielded
                       \o (IF body.raised THEN <<AgentResponse("error", <<>>)>> ELSE <<>>),
         raised |-> FALSE,
         _client |-> None]

\* ProcAgentCore(session_id=..., working_dir=...)
ProcAgentCore(session_id) == [session_id |-> session_id, _client |-> None, cleanups |-> 0]

\* cleanup letting the exception of close_project_tool through
cleanup_propagating(agent, closeFails) ==
    [agent |-> [agent EXCEPT !.cleanups = @ + 1], raised |-> closeFails]

\* ProcAgentCore.cleanup(): close_project_tool({}) raising is logged;
\* cleanups counts the calls
cleanup(agent, closeFails) ==
    [agent |-> [agent EXCEPT !.cleanups = @ + 1], raised |-> FALSE]

\* ---------------------------------------------------------------------
\* server/app.py: websocket_endpoint, one call per connection
\* ---------------------------------------------------------------------
Connections == {"c1", "c2"}
\* the values uuid.uuid4() yields
Uuids == {"u1", "u2"}
\* client messages read on one connection
MaxMessages == 1

\* what the SDK delivers for a client message
WsScripts ==
    {[create |-> TRUE, query |-> TRUE, exit |-> TRUE,
      msgs |-> <<AssistantMessage(<<"TextBlock", "ToolUseBlock">>)>>],
     [create |-> TRUE, query |-> TRUE, exit |-> TRUE,
      msgs |-> <<AssistantMessage(<<"TextBlock">>), ResultMessage>>],
     [create |-> TRUE, query |-> TRUE, exit |-> TRUE, msgs |-> <<SystemMessage>>],
     [create |-> FALSE, query |-> TRUE, exit |-> TRUE, msgs |-> <<>>]}

\* a connection the server has not accepted yet
NewConnection ==
    [pc |-> "new", session_id |-> NoName, agent |-> None, sent |-> <<>>,
     received |-> 0, stream |-> <<>>]

\* the set-up that goes on to read client messages without announcing the session
ws_setup_unannounced(k, session_id, setupFails) ==
    IF setupFails THEN [k EXCEPT !.pc = "except", !.session_id = session_id]
    ELSE [k EXCEPT !.pc = "receive", !.session_id = session_id,
                   !.agent = ProcAgentCore(session_id)]

\* lines 217-230: session_id, agent = None, and the set-up inside the try;
\* setupFails: get_settings, mkdir or ProcAgentCore raises
ws_setup(k, session_id, setupFails) ==
    IF setupFails THEN [k EXCEPT !.pc = "except", !.session_id = session_id]
    ELSE [k EXCEPT !.pc = "send_created", !.session_id = session_id,
                   !.agent = ProcAgentCore(session_id)]

\* where an await on the websocket leaves the handler
SendOutcomes == {"ok", "disconnect", "error"}
after_await(outcome, ok) ==
    CASE outcome = "ok" -> ok
      [] outcome = "disconnect" -> "finally"
      [] outcome = "error" -> "except"

\* ---------------------------------------------------------------------
\* models/promax.py: ComponentComposition
\* ---------------------------------------------------------------------
\* the validator without the early return for an empty mapping
validate_composition_sum_strict(v) ==
    IF sum_invalid(sum_values(v.items, Len(v.items)))
    THEN Raised("ValueError")
    ELSE v

\* ComponentComposition.validate_composition_sum(v)
validate_composition_sum(v) ==
    IF v.items = <<>> THEN v
    ELSE IF sum_invalid(sum_values(v.items, Len(v.items)))
    THEN Raised("ValueError")
    ELSE v

\* ---------------------------------------------------------------------
\* agent/core.py: ProcAgentCore.compare_results
\* ---------------------------------------------------------------------
\* targets set on one agent
MaxTargets == 2

\* PerformanceTarget(parameter=..., target_value=..., comparison=..., tolerance=...)
PerformanceTarget(parameter, target_value, comparison, tolerance) ==
    [parameter |-> parameter, target_value |-> target_value,
     comparison |-> comparison, tolerance |-> tolerance]

\* TargetAssessment(target=..., actual_value=..., passed=..., deviation=...)
TargetAssessment(target, actual_value, passed, deviation) ==
    [target |-> target, actual_value |-> actual_value, passed |-> passed,
     deviation |-> deviation]

\* the assessment that lets a target without a value pass
assess_missing_passes(target, result_values) ==
    IF target.parameter \notin DOMAIN result_values
    THEN TargetAssessment(target, Whole(0), TRUE, Whole(0))
    ELSE LET actual == result_values[target.parameter]
             deviation == Sub(actual, target.target_value)
         IN  TargetAssessment(target, actual,
                 CASE target.comparison = "le" -> ~Gt(actual, target.target_value)
                   [] target.comparison = "ge" -> ~Gt(target.target_value, actual)
                   [] OTHER -> ~Gt(AbsNum(deviation), target.tolerance),
                 deviation)

\* the body of the for loop (lines 712-736): the assessment of one target
assess(target, result_values) ==
    IF target.parameter \notin DOMAIN result_values
    THEN TargetAssessment(target, Whole(0), FALSE, Whole(0))
    ELSE LET actual == result_values[target.parameter]
             deviation == Sub(actual, target.target_value)
         IN  TargetAssessment(target, actual,
                 CASE target.comparison = "le" -> ~Gt(actual, target.target_value)
                   [] target.comparison = "ge" -> ~Gt(target.target_value, actual)
                   [] OTHER -> ~Gt(AbsNum(deviation), target.tolerance),
                 deviation)

\* ProcAgentCore.compare_results(results) with self.targets = targets and
\* results.result_values = result_values
compare_results(targets, result_values) ==
    IF Len(targets) = 0
    THEN [assessments |-> <<>>, overall_pass |-> TRUE,
          summary |-> [msg |-> "No targets defined", info |-> <<>>]]
    ELSE LET assessments == [i \in 1..Len(targets) |-> assess(targets[i], result_values)]
             passed_count == Cardinality({i \in 1..Len(targets) : assessments[i].passed})
         IN  [assessments |-> assessments,
              overall_pass |-> \A i \in 1..Len(targets) : assessments[i].passed,
              summary |-> [msg |-> "targets met",
                           info |-> <<passed_count, Len(assessments)>>]]

\* ---------------------------------------------------------------------
\* server/vnc_manager.py: WebsockifyManager
\* ---------------------------------------------------------------------
\* subprocesses one manager spawns
MaxSpawned == 4

\* subprocess.Popen(cmd, ...): the handle of the process with this pid
Popen(pid) == [type |-> "Popen", pid |-> pid]

\* WebsockifyManager(): no process tracked; alive: the subprocesses it
\* spawned that still run; spawned: how many it spawned
WebsockifyManager_init == [_process |-> None, alive |-> {}, spawned |-> 0]

\* self._process.poll() is None
poll_is_None(w) == w._process.pid \in w.alive

\* WebsockifyManager.is_running()
is_running(w) == IF w._process = None THEN FALSE ELSE poll_is_None(w)

\* WebsockifyManager.start(); pathsExist: the noVNC directory and its
\* vnc.html exist; popenRaises: Popen raises (websockify not installed, ...)
start(w, pathsExist, popenRaises) ==
    IF w._process # None /\ poll_is_None(w) THEN [w |-> w, res |-> TRUE]
    ELSE IF ~pathsExist THEN [w |-> w, res |-> FALSE]
    ELSE IF popenRaises THEN [w |-> w, res |-> FALSE]
    ELSE [w |-> [w EXCEPT !._process = Popen(w.spawned + 1),
                          !.alive = @ \cup {w.spawned + 1},
                          !.spawned = @ + 1],
          res |-> TRUE]

\* what terminate / wait / kill do in one stop()
StopOutcomes == {"terminated", "killed", "terminate raises", "kill raises"}

\* WebsockifyManager.stop(): terminate() and wait(timeout=5), kill() and
\* wait() when the wait times out; terminate() or kill() raising leaves the
\* process as it is; the finally clause forgets it in every case
stop(w, outcome) ==
    IF w._process = None THEN [w |-> w, res |-> None]
    ELSE [w |-> [w EXCEPT !._process = None,
                          !.alive = IF outcome \in {"terminated", "killed"}
                                    THEN @ \ {w._process.pid}
                                    ELSE @],
          res |-> None]

\* ---------------------------------------------------------------------
\* server/app.py: login, logout, auth_status and the /app page
\* ---------------------------------------------------------------------
\* tokens one server issues
MaxTokens == 2
\* settings.auth.session_timeout, in clock units
SessionTimeout == 2

\* secrets.token_urlsafe(32): the k-th token issued
Token(k) == IF k = 1 THEN "token-1" ELSE IF k = 2 THEN "token-2" ELSE "token-3"
\* a cookie value no login issued
Forged == "forged"

\* the session cookie names a token held in a with an expiry after t
authenticated(a, cookie, t) ==
    /\ cookie # NoName
    /\ cookie \in DOMAIN a
    /\ t < a[cookie]

\* app_page(session) at time t
app_page(a, cookie, t) ==
    IF ~authenticated(a, cookie, t) THEN "redirect to /" ELSE "index.html"

\* login(username, password) at time t, token being the next token
login(a, credentialsOk, token, t) ==
    IF credentialsOk
    THEN [a |-> (token :> t + SessionTimeout) @@ a, res |-> token]
    ELSE [a |-> a, res |-> "401 Invalid credentials"]

\* logout that only deletes the cookie of the browser
logout_keeping_token(a, cookie) == a

\* logout(session): auth_sessions afterwards
logout(a, cookie) ==
    IF cookie # NoName /\ cookie \in DOMAIN a THEN Without(a, cookie) ELSE a

\* auth_status(session) at time t: an expired token is deleted
auth_status(a, cookie, t) ==
    IF cookie # NoName /\ cookie \in DOMAIN a
    THEN IF t < a[cookie] THEN [a |-> a, res |-> TRUE]
         ELSE [a |-> Without(a, cookie), res |-> FALSE]
    ELSE [a |-> a, res |-> FALSE]

\* the variables of the server as the modules leave them when imported
ServerInit ==
    /\ cls = ProMaxState_class
    /\ manager = SessionManager_init(1, Timeout)
    /\ now = 0
    /\ sessions = <<>>
    /\ conn = [c \in Connections |-> NewConnection]
    /\ vnc = WebsockifyManager_init
    /\ auth_sessions = <<>>
    /\ tokens = [issued |-> <<>>, revoked |-> {}]
    /\ created = <<>>

\* ---------------------------------------------------------------------
\* Actions: one tool invocation each
\* ---------------------------------------------------------------------
Init ==
    /\ state = ProMaxState_init
    /\ envComponents = <<>>
    /\ pre = ProMaxState_init
    /\ lastTool = "none"
    /\ lastArgs = NoArgs
    /\ lastResult = None
    /\ vendorCalls = <<>>
    /\ writes = <<>>
    /\ session = "A"
    /\ ServerInit

\* The agent issues one tool call at a time and waits for its result
\* before the next: a handler runs when no result is pending, and what it
\* did is recorded until the agent takes the result.
Invoke(tool, args, out) ==
    /\ pre' = state
    /\ state' = out.st
    /\ lastTool' = tool
    /\ lastArgs' = args
    /\ lastResult' = out.res
    /\ vendorCalls' = out.calls
    /\ writes' = out.writes
    /\ UNCHANGED <<session, serverVars>>

Connect(Args) ==
    \E args \in Args, importFails \in BOOLEAN :
      \E failAt \in FailPoints(connect_promax_trace(state, args)) :
        /\ importFails => failAt = 0
        /\ Invoke("connect_promax", args,
                  connect_promax_tool(state, args, importFails, failAt))
        /\ UNCHANGED envComponents

connect_promax == Connect(ConnectArgs)

create_project ==
    \E args \in CreateProjectArgs :
      LET newProject == FreshProject(state)
          trace == create_project_trace(state, args, newProject, Documents)
      IN  \E failAt \in (IF is_connected(state) THEN FailPoints(trace) ELSE {0}) :
            LET out == create_project_tool(state, args, newProject, Documents, failAt)
            IN  /\ Invoke("create_project", args, out)
                /\ envComponents' = IF out.st.flowsheet # state.flowsheet
                                    THEN <<>> ELSE envComponents

open_project ==
    \E args \in OpenProjectArgs, count \in {0, 1}, env \in OpenedEnvs :
      LET newProject == FreshProject(state)
          body == open_project_trace(state, args, newProject, count, Documents)
      IN  \E failAt \in (IF is_connected(state) THEN 0..(Len(body) + 1) ELSE {0}) :
            LET out == open_project_tool(state, args, newProject, count, Documents, failAt)
            IN  /\ out.st.flowsheet = state.flowsheet => env = <<>>
                /\ Invoke("open_project", args, out)
                /\ envComponents' = IF out.st.flowsheet # state.flowsheet
                                    THEN env ELSE envComponents

close_project ==
    \E failAt \in (IF state.project # None THEN FailPoints(close_project_trace(state))
                   ELSE {0}) :
        /\ Invoke("close_project", NoArgs, close_project_tool(state, failAt))
        /\ envComponents' = IF state.project # None /\ failAt = 0 THEN <<>> ELSE envComponents

save_project ==
    \E args \in SaveArgs :
      \E failAt \in (IF state.project # None THEN FailPoints(save_project_trace(state, args))
                     ELSE {0}) :
        /\ Invoke("save_project", args, save_project_tool(state, args, failAt))
        /\ UNCHANGED envComponents

\* ProMaxState.reset called on the singleton
reset_state ==
    /\ pre' = state
    /\ state' = reset(state)
    /\ lastTool' = "reset"
    /\ lastArgs' = NoArgs
    /\ lastResult' = None
    /\ vendorCalls' = <<>>
    /\ writes' = <<>>
    /\ envComponents' = <<>>
    /\ UNCHANGED <<session, serverVars>>

\* the fail points of a flowsheet-scoped tool: none without a flowsheet
Points(trace) == IF has_flowsheet(state) THEN FailPoints(trace) ELSE {0}

\* the names a run of add_components registered
RECURSIVE AddedNames(_, _)
AddedNames(ws, k) ==
    IF k = 0 THEN <<>>
    ELSE AddedNames(ws, k - 1)
         \o (IF ws[k].op = "Components.Add" THEN <<ws[k].name>> ELSE <<>>)

AddComponents(Args) ==
    \E args \in Args :
      \E rejected \in SUBSET (1..Len(add_components_list(args))) :
        \E failAt \in Points(add_components_trace(state, args, rejected)) :
          LET out == add_components_tool(state, args, rejected, failAt)
              env == envComponents \o AddedNames(out.writes, Len(out.writes))
          IN  /\ ~has_flowsheet(state) => rejected = {}
              /\ Len(env) <= MaxComps
              /\ Invoke("add_components", args, out)
              /\ envComponents' = env

add_components == AddComponents(BasicComponentsArgs)

create_stream ==
    \E args \in CreateStreamArgs :
      \E failAt \in Points(create_stream_trace(state, args)) :
        /\ Invoke("create_stream", args, create_stream_tool(state, args, failAt))
        /\ UNCHANGED envComponents

create_block ==
    \E args \in CreateBlockArgs, block_name \in AutoBlockNames :
      \E failAt \in Points(create_block_trace(state, args, block_name)) :
        /\ Invoke("create_block", args,
                  create_block_tool(state, args, block_name, failAt))
        /\ UNCHANGED envComponents

connect_stream ==
    \E args \in ConnectStreamArgs :
      \E failAt \in Points(connect_stream_trace(state, args)) :
        /\ Invoke("connect_stream", args, connect_stream_tool(state, args, failAt))
        /\ UNCHANGED envComponents

SetStreamProperties(Args) ==
    \E args \in Args :
      \E failAt \in Points(set_stream_properties_trace(state, args)) :
        /\ Invoke("set_stream_properties", args,
                  set_stream_properties_tool(state, args, failAt))
        /\ UNCHANGED envComponents

SetStreamComposition(Args) ==
    \E args \in Args :
      \E unnamed \in SUBSET (1..Len(envComponents)) :
        \E failAt \in Points(set_stream_composition_trace(state, args, envComponents,
                                                          unnamed)) :
          /\ ~(has_flowsheet(state) /\ composition_valid(args)) => unnamed = {}
          /\ Invoke("set_stream_composition", args,
                    set_stream_composition_tool(state, args, envComponents,
                                                unnamed, failAt))
          /\ UNCHANGED envComponents

set_stream_properties == SetStreamProperties(SetPropertiesArgs)

set_stream_composition == SetStreamComposition(BasicCompositionArgs)

flash_stream ==
    \E args \in StreamArgs :
      \E failAt \in Points(flash_stream_trace(state, args)) :
        /\ Invoke("flash_stream", args, flash_stream_tool(state, args, failAt))
        /\ UNCHANGED envComponents

get_stream_results ==
    \E args \in StreamArgs, reading \in Readings :
      \E failAt \in Points(get_stream_results_trace(state, args)) :
        /\ Invoke("get_stream_results", args,
                  get_stream_results_tool(state, args, reading, failAt))
        /\ UNCHANGED envComponents

run_simulation ==
    \E status_code \in StatusCodes :
      \E failAt \in Points(run_simulation_trace(state)) :
        /\ Invoke("run_simulation", NoArgs, run_simulation_tool(state, status_code, failAt))
        /\ UNCHANGED envComponents

list_streams ==
    \E names \in ListedNames :
      \E failAt \in Points(list_trace(state, "flowsheet.PStreams", names)) :
        /\ Invoke("list_streams", NoArgs, list_streams_tool(state, names, failAt))
        /\ UNCHANGED envComponents

list_blocks ==
    \E names \in ListedNames :
      \E failAt \in Points(list_trace(state, "flowsheet.Blocks", names)) :
        /\ Invoke("list_blocks", NoArgs, list_blocks_tool(state, names, failAt))
        /\ UNCHANGED envComponents

\* the agent takes the pending result
take_result ==
    /\ lastTool # "none"
    /\ pre' = state
    /\ lastTool' = "none"
    /\ lastArgs' = NoArgs
    /\ lastResult' = None
    /\ vendorCalls' = <<>>
    /\ writes' = <<>>
    /\ UNCHANGED <<state, envComponents, session, serverVars>>

\* no result is pending
Idle == lastTool = "none"

\* The session: every tool of the server, and reset
Next ==
    \/ take_result
    \/ Idle /\ connect_promax
    \/ Idle /\ create_project
    \/ Idle /\ open_project
    \/ Idle /\ close_project
    \/ Idle /\ save_project
    \/ Idle /\ reset_state
    \/ Idle /\ add_components
    \/ Idle /\ create_stream
    \/ Idle /\ create_block
    \/ Idle /\ connect_stream
    \/ Idle /\ set_stream_properties
    \/ Idle /\ set_stream_composition
    \/ Idle /\ flash_stream
    \/ Idle /\ get_stream_results
    \/ Idle /\ run_simulation
    \/ Idle /\ list_streams
    \/ Idle /\ list_blocks

Spec == Init /\ [][Next]_vars

\* The stream tools in background mode, with every form of argument
connect_background == Connect(BackgroundArgs)
add_components_any == AddComponents(AddComponentsArgs)
set_stream_composition_any == SetStreamComposition(SetCompositionArgs)

NextStream ==
    \/ take_result
    \/ Idle /\ connect_background
    \/ Idle /\ create_project
    \/ Idle /\ close_project
    \/ Idle /\ add_components_any
    \/ Idle /\ set_stream_properties
    \/ Idle /\ set_stream_composition_any

SpecStream == Init /\ [][NextStream]_vars

\* ---------------------------------------------------------------------
\* Two websocket sessions.  Each connection builds its own ProcAgentCore
\* and MCP server, whose tools all work on get_promax_state(); between two
\* tool calls the event loop may serve the other connection.
\* ---------------------------------------------------------------------
Sessions == {"A", "B"}

switch_session ==
    /\ \E sid \in Sessions \ {session} : session' = sid
    /\ UNCHANGED <<state, envComponents, pre, lastTool, lastArgs, lastResult,
                   vendorCalls, writes, serverVars>>

NextSessions ==
    \/ take_result
    \/ Idle /\ switch_session
    \/ Idle /\ connect_promax
    \/ Idle /\ create_project
    \/ Idle /\ close_project
    \/ Idle /\ create_stream
    \/ Idle /\ create_block

SpecSessions == Init /\ [][NextSessions]_vars

\* ---------------------------------------------------------------------
\* Composition resolution on its own (lines 393-407): the matching loop
\* applied to a composition that passed the sum test and a registry of at
\* least one name
\* ---------------------------------------------------------------------
MaxKeys == 2

CompositionKeys == {"Methane", "methane", "METHANE", "Ethane", "Xenon"}
Fractions == {Whole(0), Num(1, 5), Num(3, 10), Num(1, 2), Num(7, 10), Whole(1)}
RegistryNames == {"Methane", "Ethane", "methane"}

\* the item sequences of a dict: keys unique
ItemSeqs ==
    {items \in UNION {[1..n -> {Item(k, v) : k \in CompositionKeys, v \in Fractions}] :
                         n \in 1..MaxKeys} :
        \A i, j \in 1..Len(items) : items[i].k = items[j].k => i = j}

\* the compositions that reach the matching loop
Compositions ==
    {Dict(items) : items \in {x \in ItemSeqs : ~sum_invalid(sum_values(x, Len(x)))}}

\* the name lists that reach the matching loop: n_comps >= 1
Registries == UNION {[1..n -> RegistryNames] : n \in 1..MaxComps}

InitResolve ==
    /\ state = ProMaxState_init
    /\ pre = ProMaxState_init
    /\ envComponents \in Registries
    /\ lastTool = "none"
    /\ lastArgs \in {[composition |-> c] : c \in Compositions}
    /\ lastResult = None
    /\ vendorCalls = <<>>
    /\ writes = <<>>
    /\ session = "A"
    /\ ServerInit

\* the loop run over lastArgs.composition and the registry
resolve_composition ==
    /\ lastTool = "none"
    /\ lastTool' = "resolve"
    /\ lastResult' = resolve(lastArgs.composition.items,
                             Len(lastArgs.composition.items), envComponents)
    /\ UNCHANGED <<state, pre, envComponents, lastArgs, vendorCalls, writes, session,
                   serverVars>>

NextResolve == resolve_composition

SpecResolve == InitResolve /\ [][NextResolve]_vars

\* ---------------------------------------------------------------------
\* convert_units on its own: called with a value, a unit and a unit type
\* while the session state is whatever it is
\* ---------------------------------------------------------------------
UnitValues ==
    {Whole(0), Whole(1), Whole(100), Whole(-40), Whole(32), Whole(212), Num(36, 10)}
UnitNames ==
    {"K", "C", "F", "R", "Pa", "kPa", "bar", "atm", "psi",
     "mol/s", "kmol/hr", "kg/s", "kg/hr", "InvalidUnit"}
UnitTypeNames == {"temperature", "pressure", "flow", "invalid_type"}

InitUnits ==
    /\ state \in {ProMaxState_init,
                  [ProMaxState_init EXCEPT !.pmx = Dispatch("ProMax.ProMax")]}
    /\ pre = state
    /\ envComponents = <<>>
    /\ lastTool = "none"
    /\ lastArgs \in {[value |-> v, unit |-> u, unit_type |-> ut] :
                        v \in UnitValues, u \in UnitNames, ut \in UnitTypeNames}
    /\ lastResult = None
    /\ vendorCalls = <<>>
    /\ writes = <<>>
    /\ session = "A"
    /\ ServerInit

\* convert_units(value, unit, unit_type): a function of its arguments that
\* assigns no field of the state
call_convert_units ==
    /\ lastTool = "none"
    /\ lastTool' = "convert_units"
    /\ lastResult' = convert_units(lastArgs.value, lastArgs.unit, lastArgs.unit_type)
    /\ pre' = state
    /\ UNCHANGED <<state, envComponents, lastArgs, vendorCalls, writes, session,
                   serverVars>>

NextUnits == call_convert_units

SpecUnits == InitUnits /\ [][NextUnits]_vars

\* ---------------------------------------------------------------------
\* ProMaxState() constructed again while the tools work on _state
\* ---------------------------------------------------------------------
\* ProMaxState(): __new__, then __init__ on what it returned; the call
\* yields that instance
construct_ProMaxState ==
    LET c1 == ProMaxState__new__(cls)
        r == ProMaxState__init__(c1, state)
    IN  /\ cls' = r.cls
        /\ state' = r.st
        /\ pre' = state
        /\ lastTool' = "ProMaxState"
        /\ lastArgs' = NoArgs
        /\ lastResult' = c1._instance
        /\ vendorCalls' = <<>>
        /\ writes' = <<>>
        /\ UNCHANGED <<envComponents, session, manager, now, sessions, conn, vnc, auth_sessions, tokens, created>>

NextSingleton ==
    \/ take_result
    \/ Idle /\ construct_ProMaxState
    \/ Idle /\ connect_promax
    \/ Idle /\ create_project
    \/ Idle /\ create_stream
    \/ Idle /\ create_block
    \/ Idle /\ reset_state

SpecSingleton == Init /\ [][NextSingleton]_vars

\* ---------------------------------------------------------------------
\* A SessionManager and its cleanup loop
\* ---------------------------------------------------------------------
InitManager ==
    /\ state = ProMaxState_init
    /\ envComponents = <<>>
    /\ pre = ProMaxState_init
    /\ lastTool = "none"
    /\ lastArgs = NoArgs
    /\ lastResult = None
    /\ vendorCalls = <<>>
    /\ writes = <<>>
    /\ session = "A"
    /\ cls = ProMaxState_class
    /\ manager \in {SessionManager_init(n, Timeout) : n \in 1..MaxSessions}
    /\ now = 0
    /\ sessions = <<>>
    /\ conn = [c \in Connections |-> NewConnection]
    /\ vnc = WebsockifyManager_init
    /\ auth_sessions = <<>>
    /\ tokens = [issued |-> <<>>, revoked |-> {}]
    /\ created = <<>>

\* a method of the manager called: what it was given and what it gave back
ManagerCall(method, args, out) ==
    /\ manager' = out.m
    /\ lastTool' = method
    /\ lastArgs' = args
    /\ lastResult' = out.res
    /\ UNCHANGED <<state, envComponents, pre, vendorCalls, writes, session, cls, now,
                   sessions, conn, vnc, auth_sessions, tokens, created>>

call_create_session ==
    \E sid \in SessionIds, mkdirFails \in BOOLEAN :
      ManagerCall("create_session", [session_id |-> sid],
                  create_session(manager, sid, now, mkdirFails))

call_get_session ==
    \E sid \in SessionIds :
      ManagerCall("get_session", [session_id |-> sid], get_session(manager, sid, now))

call_destroy_session ==
    \E sid \in SessionIds :
      ManagerCall("destroy_session", [session_id |-> sid], destroy_session(manager, sid))

\* _cleanup_loop wakes from its sleep and runs one iteration
cleanup_loop ==
    ManagerCall("_cleanup_loop", NoArgs,
                [m |-> cleanup_iteration(manager, now),
                 res |-> [type |-> "expired", sids |-> expired(manager, now)]])

\* time passes
tick ==
    /\ now < MaxTime
    /\ now' = now + 1
    /\ lastTool' = "tick"
    /\ lastArgs' = NoArgs
    /\ lastResult' = None
    /\ UNCHANGED <<state, envComponents, pre, vendorCalls, writes, session, cls, manager,
                   sessions, conn, vnc, auth_sessions, tokens, created>>

NextManager ==
    \/ call_create_session
    \/ call_get_session
    \/ call_destroy_session
    \/ cleanup_loop
    \/ tick

SpecManager == InitManager /\ [][NextManager]_vars

\* the cleanup task, once started, runs an iteration after every sleep
SpecManagerRunning == SpecManager /\ WF_vars(cleanup_loop)

\* ---------------------------------------------------------------------
\* websocket_endpoint: each await of the handler is a step, between which
\* the event loop may run the handler of another connection
\* ---------------------------------------------------------------------
\* a message on the wire
Sent(type, session_id) == [type |-> type, session_id |-> session_id]

\* line 216 and, when accept() returned, lines 217-230
ws_accept(c) ==
    /\ conn[c].pc = "new"
    /\ \E accepted \in BOOLEAN, setupFails \in BOOLEAN :
       \E sid \in {u \in Uuids : \A d \in Connections : conn[d].session_id # u} :
         IF ~accepted
         THEN /\ conn' = [conn EXCEPT ![c].pc = "raised"]
              /\ UNCHANGED sessions
         ELSE LET k == ws_setup(conn[c], sid, setupFails)
              IN  /\ conn' = [conn EXCEPT ![c] = k]
                  /\ sessions' = IF k.agent # None
                                 THEN (sid :> Object(sid)) @@ sessions
                                 ELSE sessions
    /\ UNCHANGED <<toolVars, cls, manager, now, vnc, auth_sessions, tokens, created>>

\* lines 233-236
ws_send_created(c) ==
    /\ conn[c].pc = "send_created"
    /\ \E outcome \in SendOutcomes :
         conn' = [conn EXCEPT
                    ![c].pc = after_await(outcome, "receive"),
                    ![c].sent = IF outcome = "ok"
                                THEN Append(@, Sent("session_created", conn[c].session_id))
                                ELSE @]
    /\ UNCHANGED <<toolVars, cls, manager, now, sessions, vnc, auth_sessions, tokens, created>>

\* lines 242-252: receive_json, ChatMessage, and process_message up to its
\* first response
ws_receive(c) ==
    /\ conn[c].pc = "receive"
    /\ \/ /\ conn[c].received < MaxMessages
          /\ \E script \in WsScripts :
               LET rs == process_message(script).responses
               IN  conn' = [conn EXCEPT ![c].received = @ + 1,
                                        ![c].stream = rs,
                                        ![c].pc = IF Len(rs) = 0 THEN "receive"
                                                  ELSE "stream"]
       \/ \E outcome \in SendOutcomes \ {"ok"} :
            conn' = [conn EXCEPT ![c].pc = after_await(outcome, "receive")]
    /\ UNCHANGED <<toolVars, cls, manager, now, sessions, vnc, auth_sessions, tokens, created>>

\* line 253, and process_message up to its next response
ws_stream(c) ==
    /\ conn[c].pc = "stream"
    /\ \E outcome \in SendOutcomes :
         IF outcome = "ok"
         THEN conn' = [conn EXCEPT
                         ![c].sent = Append(@, Sent(Head(conn[c].stream).type, NoName)),
                         ![c].stream = Tail(@),
                         ![c].pc = IF Len(conn[c].stream) = 1 THEN "receive"
                                   ELSE "stream"]
         ELSE conn' = [conn EXCEPT ![c].pc = after_await(outcome, "stream")]
    /\ UNCHANGED <<toolVars, cls, manager, now, sessions, vnc, auth_sessions, tokens, created>>

\* lines 258-266: the error is sent unless that send fails too
ws_except(c) ==
    /\ conn[c].pc = "except"
    /\ \E sendFails \in BOOLEAN :
         conn' = [conn EXCEPT ![c].pc = "finally",
                              ![c].sent = IF sendFails THEN @
                                          ELSE Append(@, Sent("error", NoName))]
    /\ UNCHANGED <<toolVars, cls, manager, now, sessions, vnc, auth_sessions, tokens, created>>

\* lines 268-274
ws_finally(c) ==
    /\ conn[c].pc = "finally"
    /\ \E closeFails \in BOOLEAN :
         IF conn[c].agent = None
         THEN /\ conn' = [conn EXCEPT ![c].pc = "done"]
              /\ sessions' = Without(sessions, conn[c].session_id)
         ELSE LET r == cleanup(conn[c].agent, closeFails)
              IN  /\ conn' = [conn EXCEPT ![c].agent = r.agent,
                                          ![c].pc = IF r.raised THEN "raised" ELSE "done"]
                  /\ sessions' = IF r.raised THEN sessions
                                 ELSE Without(sessions, conn[c].session_id)
    /\ UNCHANGED <<toolVars, cls, manager, now, vnc, auth_sessions, tokens, created>>

NextWebsocket ==
    \E c \in Connections :
      \/ ws_accept(c)
      \/ ws_send_created(c)
      \/ ws_receive(c)
      \/ ws_stream(c)
      \/ ws_except(c)
      \/ ws_finally(c)

SpecWebsocket == Init /\ [][NextWebsocket]_vars

\* ---------------------------------------------------------------------
\* process_message on its own: called on what the SDK will deliver
\* ---------------------------------------------------------------------
SdkMessages ==
    {AssistantMessage(<<"TextBlock">>),
     AssistantMessage(<<"ToolUseBlock", "TextBlock">>),
     AssistantMessage(<<"ThinkingBlock">>),
     ResultMessage, SystemMessage, StreamRaises}

\* create, query, exit: entering the async with, client.query and leaving
\* the async with succeed
Scripts ==
    {[create |-> cr, query |-> q, exit |-> x, msgs |-> ms] :
        cr \in BOOLEAN, q \in BOOLEAN, x \in BOOLEAN,
        ms \in UNION {[1..n -> SdkMessages] : n \in 0..MaxMsgs}}

InitAgent ==
    /\ state = ProMaxState_init
    /\ envComponents = <<>>
    /\ pre = ProMaxState_init
    /\ lastTool = "none"
    /\ lastArgs \in Scripts
    /\ lastResult = None
    /\ vendorCalls = <<>>
    /\ writes = <<>>
    /\ session = "A"
    /\ ServerInit

\* the generator run to its end by a caller that takes every response
call_process_message ==
    /\ lastTool = "none"
    /\ lastTool' = "process_message"
    /\ lastResult' = process_message(lastArgs)
    /\ UNCHANGED <<state, pre, envComponents, lastArgs, vendorCalls, writes, session,
                   serverVars>>

NextAgent == call_process_message

SpecAgent == InitAgent /\ [][NextAgent]_vars

\* ---------------------------------------------------------------------
\* ComponentComposition(components=...) on its own, beside a session that
\* has a flowsheet
\* ---------------------------------------------------------------------
\* mole fractions, some of them just inside and just outside the tolerance
ModelFractions == Fractions \cup {Num(5004, 10000), Num(251, 500)}

ModelItemSeqs ==
    {items \in UNION {[1..n -> {Item(k, v) : k \in CompositionKeys, v \in ModelFractions}] :
                         n \in 0..MaxKeys} :
        \A i, j \in 1..Len(items) : items[i].k = items[j].k => i = j}

InitModels ==
    /\ state = [ProMaxState_init EXCEPT !.pmx = Dispatch("ProMax.ProMax"),
                                        !.project = Project(1),
                                        !.flowsheet = Flowsheet(Project(1))]
    /\ pre = state
    /\ envComponents = <<"Methane">>
    /\ lastTool = "none"
    /\ lastArgs \in {[components |-> Dict(items)] : items \in ModelItemSeqs}
    /\ lastResult = None
    /\ vendorCalls = <<>>
    /\ writes = <<>>
    /\ session = "A"
    /\ ServerInit

\* the model validates the mapping it is constructed with
construct_ComponentComposition ==
    /\ lastTool = "none"
    /\ lastTool' = "ComponentComposition"
    /\ lastResult' = validate_composition_sum(lastArgs.components)
    /\ UNCHANGED <<state, pre, envComponents, lastArgs, vendorCalls, writes, session,
                   serverVars>>

NextModels == construct_ComponentComposition

SpecModels == InitModels /\ [][NextModels]_vars

\* ---------------------------------------------------------------------
\* compare_results on its own: called with targets set and a result
\* ---------------------------------------------------------------------
TargetParameters == {"Offgas H2S", "Rich Amine Loading"}
ResultValues == {Whole(1), Whole(2), Whole(3)}

Targets ==
    {PerformanceTarget(p, Whole(2), c, t) :
        p \in TargetParameters, c \in {"le", "ge", "eq"}, t \in {Whole(0), Whole(1)}}

\* result_values: a value for some of the parameters
ResultDicts == UNION {[ps -> ResultValues] : ps \in SUBSET TargetParameters}

InitCompare ==
    /\ state = ProMaxState_init
    /\ envComponents = <<>>
    /\ pre = ProMaxState_init
    /\ lastTool = "none"
    /\ lastArgs \in {[targets |-> ts, result_values |-> rv] :
                        ts \in UNION {[1..n -> Targets] : n \in 0..MaxTargets},
                        rv \in ResultDicts}
    /\ lastResult = None
    /\ vendorCalls = <<>>
    /\ writes = <<>>
    /\ session = "A"
    /\ ServerInit

call_compare_results ==
    /\ lastTool = "none"
    /\ lastTool' = "compare_results"
    /\ lastResult' = compare_results(lastArgs.targets, lastArgs.result_values)
    /\ UNCHANGED <<state, pre, envComponents, lastArgs, vendorCalls, writes, session,
                   serverVars>>

NextCompare == call_compare_results

SpecCompare == InitCompare /\ [][NextCompare]_vars

\* ---------------------------------------------------------------------
\* A WebsockifyManager: start, stop and is_running called in any order,
\* while a subprocess may exit on its own
\* ---------------------------------------------------------------------
VncCall(method, out) ==
    /\ vnc' = out.w
    /\ lastTool' = method
    /\ lastResult' = [type |-> "returned", value |-> out.res]
    /\ UNCHANGED <<state, envComponents, pre, lastArgs, vendorCalls, writes, session, cls,
                   manager, now, sessions, conn, auth_sessions, tokens, created>>

vnc_start ==
    /\ vnc.spawned < MaxSpawned
    /\ \E pathsExist \in BOOLEAN, popenRaises \in BOOLEAN :
         VncCall("start", start(vnc, pathsExist, popenRaises))

vnc_stop ==
    \E outcome \in StopOutcomes :
      /\ (outcome \in {"terminate raises", "kill raises"}
            => vnc._process # None /\ poll_is_None(vnc))
      /\ VncCall("stop", stop(vnc, outcome))

vnc_is_running == VncCall("is_running", [w |-> vnc, res |-> is_running(vnc)])

\* a websockify subprocess exits (its port is taken, it is killed from outside)
vnc_process_exits ==
    \E pid \in vnc.alive :
      VncCall("exit", [w |-> [vnc EXCEPT !.alive = @ \ {pid}], res |-> None])

NextVnc ==
    \/ vnc_start
    \/ vnc_stop
    \/ vnc_is_running
    \/ vnc_process_exits

SpecVnc == Init /\ [][NextVnc]_vars

\* ---------------------------------------------------------------------
\* Browsers logging in and out and asking for /app, while time passes
\* ---------------------------------------------------------------------
\* what a browser can present: a token some login returned, a made-up
\* value, or no cookie
Cookies == {tokens.issued[i].token : i \in 1..Len(tokens.issued)} \cup {Forged, NoName}

HttpCall(endpoint, cookie, a, res, tk) ==
    /\ auth_sessions' = a
    /\ tokens' = tk
    /\ lastTool' = endpoint
    /\ lastArgs' = [session |-> cookie]
    /\ lastResult' = [type |-> "response", value |-> res]
    /\ UNCHANGED <<state, envComponents, pre, vendorCalls, writes, session, cls, manager,
                   now, sessions, conn, vnc, created>>

http_login ==
    /\ Len(tokens.issued) < MaxTokens
    /\ \E credentialsOk \in BOOLEAN :
         LET token == Token(Len(tokens.issued) + 1)
             out == login(auth_sessions, credentialsOk, token, now)
         IN  HttpCall("login", NoName, out.a, out.res,
                      IF credentialsOk
                      THEN [tokens EXCEPT !.issued =
                              Append(@, [token |-> token, expiry |-> now + SessionTimeout])]
                      ELSE tokens)

http_logout ==
    \E cookie \in Cookies :
      HttpCall("logout", cookie, logout(auth_sessions, cookie), "redirect to /",
               [tokens EXCEPT !.revoked = @ \cup {cookie}])

http_auth_status ==
    \E cookie \in Cookies :
      LET out == auth_status(auth_sessions, cookie, now)
      IN  HttpCall("auth_status", cookie, out.a, out.res, tokens)

http_app_page ==
    \E cookie \in Cookies :
      HttpCall("app_page", cookie, auth_sessions, app_page(auth_sessions, cookie, now),
               tokens)

\* time passes between two requests
http_tick ==
    /\ now < MaxTime
    /\ now' = now + 1
    /\ lastTool' = "tick"
    /\ lastArgs' = NoArgs
    /\ lastResult' = None
    /\ UNCHANGED <<state, envComponents, pre, vendorCalls, writes, session, cls, manager,
                   sessions, conn, vnc, auth_sessions, tokens, created>>

NextAuth ==
    \/ http_login
    \/ http_logout
    \/ http_auth_status
    \/ http_app_page
    \/ http_tick

SpecAuth == Init /\ [][NextAuth]_vars

\* ---------------------------------------------------------------------
\* Building and connecting a flowsheet, the mode of every creation noted
\* ---------------------------------------------------------------------
DataOnly == "data only"
WithShape == "with Visio shape"

\* the names the last create_stream or create_block made, with their mode
CreatedNames ==
    IF lastTool \notin {"create_stream", "create_block"} \/ IsError(lastResult)
    THEN <<>>
    ELSE LET mode == IF gui_mode(pre) THEN WithShape ELSE DataOnly
             name == ArgOr(lastArgs, "name", NoName)
             auto == IF lastTool = "create_block" /\ gui_mode(pre)
                     THEN {ResultText(lastResult).info[2]} ELSE {}
         IN  [n \in ({name} \ {NoName}) \cup auto |-> mode]

\* the agent takes the pending result and notes what was created
note_result ==
    /\ lastTool # "none"
    /\ created' = CreatedNames @@ created
    /\ pre' = state
    /\ lastTool' = "none"
    /\ lastArgs' = NoArgs
    /\ lastResult' = None
    /\ vendorCalls' = <<>>
    /\ writes' = <<>>
    /\ UNCHANGED <<state, envComponents, session, cls, manager, now, sessions, conn, vnc,
                   auth_sessions, tokens>>

NextConnect ==
    \/ note_result
    \/ Idle /\ connect_promax
    \/ Idle /\ create_project
    \/ Idle /\ create_stream
    \/ Idle /\ create_block
    \/ Idle /\ connect_stream

SpecConnect == Init /\ [][NextConnect]_vars

\* ---------------------------------------------------------------------
\* set_stream_properties followed by get_stream_results on one stream,
\* the simulator returning what was written to it
\* ---------------------------------------------------------------------
Temperatures == {Whole(25), Num(0 - 27315, 100), None}
Pressures == {Whole(100), Whole(0), None}
MolarFlows == {Num(36, 10), Whole(0), None}

\* a background session with a project and a flowsheet
WithFlowsheet ==
    [ProMaxState_init EXCEPT !.pmx = Dispatch("ProMax.ProMax"),
                             !.project = Project(1),
                             !.flowsheet = Flowsheet(Project(1))]

InitRoundTrip ==
    /\ state = WithFlowsheet
    /\ pre = WithFlowsheet
    /\ envComponents = <<>>
    /\ lastTool = "none"
    /\ lastArgs \in {[stream_name |-> "S1", temperature_c |-> t, pressure_kpa |-> p,
                      molar_flow_kmol_hr |-> f] :
                        t \in Temperatures, p \in Pressures, f \in MolarFlows}
    /\ lastResult = None
    /\ vendorCalls = <<>>
    /\ writes = <<>>
    /\ session = "A"
    /\ ServerInit

\* the value the simulator holds for a property: the last one written, or
\* none
Stored(prop) ==
    LET at == {i \in 1..Len(writes) : writes[i].prop = PHASE_PROPS(prop)}
    IN  IF at = {} THEN None
        ELSE writes[CHOOSE i \in at : \A j \in at : j <= i].value

round_trip_set ==
    /\ lastTool = "none"
    /\ \E failAt \in FailPoints(set_stream_properties_trace(state, lastArgs)) :
         Invoke("set_stream_properties", lastArgs,
                set_stream_properties_tool(state, lastArgs, failAt))
    /\ UNCHANGED envComponents

round_trip_get ==
    /\ lastTool = "set_stream_properties"
    /\ \E failAt \in FailPoints(get_stream_results_trace(state, lastArgs)) :
         LET out == get_stream_results_of(state, lastArgs, Stored("temperature"),
                                          Stored("pressure"), Stored("molar_flow"), failAt)
         IN  /\ lastTool' = "get_stream_results"
             /\ lastResult' = out.res
             /\ vendorCalls' = out.calls
             /\ state' = out.st
             /\ pre' = state
    /\ UNCHANGED <<lastArgs, writes, envComponents, session, serverVars>>

NextRoundTrip ==
    \/ round_trip_set
    \/ round_trip_get

SpecRoundTrip == InitRoundTrip /\ [][NextRoundTrip]_vars

\* ---------------------------------------------------------------------
\* Properties
\* ---------------------------------------------------------------------
FlowsheetTools ==
    {"add_components", "create_stream", "create_block", "connect_stream",
     "set_stream_properties", "set_stream_composition", "flash_stream",
     "get_stream_results", "run_simulation", "list_streams", "list_blocks"}

NoFlowsheetMsg == "No flowsheet. Create a project first."
NotConnectedMsg == "Not connected to ProMax. Call connect_promax first."

\* the pending result is an error with this wording
ErrorWith(msg) == IsError(lastResult) /\ Msg(lastResult) = msg

\* the last invocation made no vendor call and changed no field
NoEffect == vendorCalls = <<>> /\ writes = <<>> /\ state = pre

\* every field as ProMaxState.__init__ leaves it
AllAbsent(s) ==
    /\ s.pmx = None /\ s.project = None /\ s.flowsheet = None
    /\ s.visio = None /\ s.vpage = None /\ s.with_gui = FALSE
    /\ s.stencils = {} /\ DOMAIN s.stream_shapes = {} /\ DOMAIN s.block_shapes = {}

\* C1: in every reachable state, whatever vendor call failed on the way, a
\* flowsheet is present only with a project and a project only with the
\* connection handle.
C1_FlowsheetImpliesProjectImpliesConnection ==
    /\ state.flowsheet # None => state.project # None
    /\ state.project # None => state.pmx # None

\* a vendor call failed in the middle of open_project and a flowsheet is held
C1_Witness ==
    /\ lastTool = "open_project" /\ IsError(lastResult)
    /\ state.flowsheet # None /\ state # pre

\* C2: a flowsheet-scoped tool invoked with no flowsheet returns the
\* 'No flowsheet' error, makes no vendor call and changes no field.
C2_NoFlowsheetRejected ==
    (lastTool \in FlowsheetTools /\ pre.flowsheet = None)
        => (ErrorWith(NoFlowsheetMsg) /\ NoEffect)

\* run_simulation with a project open (a file with no flowsheet) and no flowsheet
C2_Witness ==
    lastTool = "run_simulation" /\ pre.flowsheet = None /\ pre.project # None

\* C3: create_project and open_project invoked with no connection handle
\* return the 'Not connected' error, make no vendor call and change no field.
C3_NotConnectedRejected ==
    (lastTool \in {"create_project", "open_project"} /\ pre.pmx = None)
        => (ErrorWith(NotConnectedMsg) /\ NoEffect)

C3_Witness == lastTool = "open_project" /\ pre.pmx = None

\* C4: connect_promax invoked while disconnected and returning a failure
\* leaves the state disconnected and with_gui as it was.
C4_FailedConnectStaysDisconnected ==
    (lastTool = "connect_promax" /\ pre.pmx = None /\ IsError(lastResult))
        => (state.pmx = None /\ state.with_gui = pre.with_gui)

\* C5: create_project or open_project returning an error leaves project,
\* flowsheet, visio, vpage and stencils as they were.
C5_FailedTransitionIsAtomic ==
    (lastTool \in {"create_project", "open_project"} /\ IsError(lastResult))
        => /\ state.project = pre.project
           /\ state.flowsheet = pre.flowsheet
           /\ state.visio = pre.visio
           /\ state.vpage = pre.vpage
           /\ state.stencils = pre.stencils

\* C6: close_project with a project present either succeeds and leaves every
\* field reset, or fails on the vendor's Close, returns an error and leaves
\* every field as it was.
C6_CloseResetsOrLeaves ==
    (lastTool = "close_project" /\ pre.project # None)
        => \/ ~IsError(lastResult) /\ AllAbsent(state)
           \/ /\ IsError(lastResult) /\ state = pre
              /\ vendorCalls = <<"project.Close">>

\* a successful close of a session that held shapes, stencils and the GUI flag
C6_Witness ==
    /\ lastTool = "close_project" /\ ~IsError(lastResult)
    /\ DOMAIN pre.stream_shapes # {} /\ DOMAIN pre.block_shapes # {}
    /\ pre.stencils # {} /\ pre.with_gui

\* C7: close_project with no project returns an informational result that is
\* not an error, makes no vendor call, changes no field, and invoked again
\* returns the same result.
C7_CloseWithoutProjectIsIdempotent ==
    (lastTool = "close_project" /\ pre.project = None)
        => /\ ~IsError(lastResult) /\ Msg(lastResult) = "No project to close."
           /\ NoEffect
           /\ close_project_tool(state, 0).res = lastResult
           /\ close_project_tool(state, 0).st = state

\* close_project with the connection up and no project
C7_Witness == lastTool = "close_project" /\ pre.project = None /\ pre.pmx # None

\* C8: reset() from any reachable state gives the state with is_connected and
\* has_flowsheet false, project absent, with_gui false and the stencils and
\* both shape registries empty; a second reset() gives the same state.
C8_ResetClearsAndIsIdempotent ==
    lastTool = "reset"
        => /\ ~is_connected(state) /\ ~has_flowsheet(state)
           /\ state.project = None /\ state.with_gui = FALSE
           /\ state.stencils = {}
           /\ DOMAIN state.stream_shapes = {} /\ DOMAIN state.block_shapes = {}
           /\ reset(state) = state

\* reset() of a GUI session holding a flowsheet, stencils and shapes
C8_Witness ==
    /\ lastTool = "reset" /\ pre.with_gui /\ pre.flowsheet # None
    /\ pre.stencils # {} /\ DOMAIN pre.block_shapes # {}

\* C9: with no flowsheet, set_stream_properties and set_stream_composition
\* return the 'No flowsheet' error whatever the arguments are (a composition
\* with a wrong sum, a malformed string, missing arguments): no outcome of
\* normalising or validating the arguments is reported.
C9_FlowsheetCheckedBeforeNormalization ==
    (lastTool \in {"set_stream_properties", "set_stream_composition"}
     /\ pre.flowsheet = None)
        => (ErrorWith(NoFlowsheetMsg) /\ NoEffect)

\* a composition string that does not parse, sent with no flowsheet
C9_Witness ==
    /\ lastTool = "set_stream_composition" /\ pre.flowsheet = None
    /\ parse_composition(lastArgs) = None

\* the sum of the composition argument of the pending call
LastTotal ==
    LET items == parse_composition(lastArgs).items IN sum_values(items, Len(items))

\* more than 0.001 away from 1.0
FarFromOne(total) ==
    \/ Gt(total, Num(1001, 1000))
    \/ Gt(Num(999, 1000), total)

\* C10: with a flowsheet, a composition whose values sum to more than 0.001
\* away from 1.0 gets the 'must sum to 1.0' error carrying the sum (to four
\* decimals), whatever is registered, before any vendor call.
C10_SumCheckedBeforeVendorCalls ==
    (/\ lastTool = "set_stream_composition" /\ pre.flowsheet # None
     /\ parse_composition(lastArgs) # None
     /\ FarFromOne(LastTotal))
        => /\ ErrorWith("Composition must sum to 1.0, got")
           /\ LET carried == ResultText(lastResult).info[1]
              IN  ~Gt(AbsNum(Sub(carried, LastTotal)), Num(1, 20000))
           /\ NoEffect

\* a sum of 0.8 with nothing registered
C10_Witness ==
    /\ lastTool = "set_stream_composition" /\ pre.flowsheet # None
    /\ parse_composition(lastArgs) # None
    /\ LastTotal = Num(8, 10)
    /\ envComponents = <<>>

\* the pending call is set_stream_composition with a flowsheet and a
\* composition that parses and sums to within 0.001 of 1.0
CompositionAccepted ==
    /\ lastTool = "set_stream_composition" /\ pre.flowsheet # None
    /\ parse_composition(lastArgs) # None
    /\ ~FarFromOne(LastTotal)

HeadCalls == <<"flowsheet.PStreams", "flowsheet.Environment", "env.Components.Count">>
NoComponentsMsg == "No components in environment. Add components first."

\* the pending call went no further than the three reads that precede the
\* n_comps test and wrote nothing
StoppedAtHead ==
    /\ writes = <<>> /\ state = pre
    /\ Len(vendorCalls) <= 3
    /\ vendorCalls = SubSeq(HeadCalls, 1, Len(vendorCalls))

\* C11 as stated: with a flowsheet, an accepted composition and an empty
\* registry, set_stream_composition returns the 'No components' error, writes
\* nothing and attempts no matching.
C11_EmptyRegistryAlwaysNoComponents ==
    (CompositionAccepted /\ envComponents = <<>>)
        => (ErrorWith(NoComponentsMsg) /\ StoppedAtHead)

\* C11 amended: with a flowsheet, an accepted composition and an empty
\* registry, set_stream_composition returns an error, writes nothing and
\* reads no component name; the error is 'No components' when the stream
\* lookup, the environment and the component count were read, and 'Failed to
\* set composition' naming the read that raised otherwise.
C11_EmptyRegistryNoWrite ==
    (CompositionAccepted /\ envComponents = <<>>)
        => /\ StoppedAtHead
           /\ \/ ErrorWith(NoComponentsMsg) /\ vendorCalls = HeadCalls
              \/ /\ ErrorWith("Failed to set composition")
                 /\ vendorCalls # <<>>
                 /\ ResultText(lastResult).info = <<vendorCalls[Len(vendorCalls)]>>

\* the 'No components' error for {"Methane": 0.5, "Ethane": 0.5} and no
\* registered component
C11_Witness ==
    /\ CompositionAccepted /\ envComponents = <<>>
    /\ Len(parse_composition(lastArgs).items) = 2
    /\ ErrorWith(NoComponentsMsg)

\* the loop has run over the composition and the registry
Resolved == lastTool = "resolve"

\* how many times name occurs in the first n entries of seq
RECURSIVE Occurrences(_, _, _)
Occurrences(seq, name, n) ==
    IF n = 0 THEN 0
    ELSE Occurrences(seq, name, n - 1) + (IF seq[n] = name THEN 1 ELSE 0)

\* name equals key ignoring case
SameName(key, name) == lower(key) = lower(name)

\* C12: for a composition and a registry of N >= 1 names, resolution gives a
\* vector of exactly N entries in which every slot whose registered name
\* equals no composition key ignoring case holds 0.0, and every composition
\* key is reported exactly once, in matched or in unmatched.
C12_DenseVectorAndPartition ==
    Resolved =>
        LET items == lastArgs.composition.items
            r == lastResult
        IN  /\ DOMAIN r.comp_values = 1..Len(envComponents)
            /\ \A i \in 1..Len(envComponents) :
                  (\A k \in Keys(items) : ~SameName(k, envComponents[i]))
                      => r.comp_values[i] = Whole(0)
            /\ \A k \in Keys(items) :
                  Occurrences(r.matched, k, Len(r.matched))
                    + Occurrences(r.unmatched, k, Len(r.unmatched)) = 1
            /\ Len(r.matched) + Len(r.unmatched) = Len(items)

\* {"methane": 0.7, "Xenon": 0.3} against the registry Methane, Ethane: one
\* key matched ignoring case, one key unmatched, one slot no key equals
C12_Witness ==
    /\ Resolved
    /\ lastArgs.composition.items
         = <<Item("methane", Num(7, 10)), Item("Xenon", Num(3, 10))>>
    /\ envComponents = <<"Methane", "Ethane">>
    /\ lastResult.comp_values = <<Num(7, 10), Whole(0)>>
    /\ lastResult.unmatched = <<"Xenon">>

\* the first registry position whose name equals key ignoring case, 0 when
\* there is none
FirstIndex(key) ==
    IF \A i \in 1..Len(envComponents) : ~SameName(key, envComponents[i]) THEN 0
    ELSE CHOOSE i \in 1..Len(envComponents) :
            /\ SameName(key, envComponents[i])
            /\ \A j \in 1..(i - 1) : ~SameName(key, envComponents[j])

\* the registry positions whose name already stands at an earlier position
LaterDuplicates ==
    {i \in 1..Len(envComponents) :
        \E j \in 1..(i - 1) : SameName(envComponents[j], envComponents[i])}

\* C13 as stated: for every composition key that equals a registered name
\* ignoring case, the vector entry at the first such registry position equals
\* that key's fraction, also when two keys differ only in letter case; later
\* duplicate registry positions hold 0.0.
C13_EveryMatchedKeyKeepsItsFraction ==
    Resolved =>
        LET items == lastArgs.composition.items
        IN  /\ \A n \in 1..Len(items) :
                  FirstIndex(items[n].k) # 0
                      => lastResult.comp_values[FirstIndex(items[n].k)] = items[n].v
            /\ \A i \in LaterDuplicates : lastResult.comp_values[i] = Whole(0)

\* C13 amended: for every composition key that equals a registered name
\* ignoring case, the vector entry at the first such registry position equals
\* the fraction of the last key, in the mapping's order, that equals that name
\* ignoring case (the key's own fraction when no later key differs from it
\* only in letter case); later duplicate registry positions hold 0.0.
C13_LastSameNameKeyWins ==
    Resolved =>
        LET items == lastArgs.composition.items
        IN  /\ \A n \in 1..Len(items) :
                  (/\ FirstIndex(items[n].k) # 0
                   /\ \A m \in (n + 1)..Len(items) : ~SameName(items[m].k, items[n].k))
                      => lastResult.comp_values[FirstIndex(items[n].k)] = items[n].v
            /\ \A i \in LaterDuplicates : lastResult.comp_values[i] = Whole(0)

\* {"Methane": 0.3, "METHANE": 0.7} against the registry methane, Methane:
\* the later key's fraction stands at the first position, the duplicate
\* position holds 0.0
C13_Witness ==
    /\ Resolved
    /\ lastArgs.composition.items
         = <<Item("Methane", Num(3, 10)), Item("METHANE", Num(7, 10))>>
    /\ envComponents = <<"methane", "Methane">>
    /\ lastResult.comp_values = <<Num(7, 10), Whole(0)>>
    /\ lastResult.matched = <<"Methane", "METHANE">>

\* the names the pending call matched against: the registered name, or
\* Component_<i> where reading the name raised
UsedNames ==
    [i \in 1..Len(envComponents) |->
        IF vendorCalls[3 + i] = NameReadRaised
        THEN component_fallback(i - 1) ELSE envComponents[i]]

\* the keys of the pending composition, in order, that equal no used name
UnmatchedKeys ==
    LET items == parse_composition(lastArgs).items
        keys == [n \in 1..Len(items) |-> items[n].k]
        NoUsedName(k) == \A i \in 1..Len(envComponents) : ~SameName(k, UsedNames[i])
    IN  SelectSeq(keys, NoUsedName)

\* some key of the pending composition equals no registered name
SomeKeyUnregistered ==
    \E k \in Keys(parse_composition(lastArgs).items) :
        \A i \in 1..Len(envComponents) : ~SameName(k, envComponents[i])

\* the pending call ended in the handler's except clause on a vendor call
VendorCallFailed ==
    /\ ErrorWith("Failed to set composition")
    /\ vendorCalls # <<>>
    /\ ResultText(lastResult).info = <<vendorCalls[Len(vendorCalls)]>>
    /\ writes = <<>>

SameRegistry(a, b) == DOMAIN a = DOMAIN b /\ \A k \in DOMAIN a : a[k] = b[k]

\* registry b is registry a with entries put under names of added, every
\* other entry kept
Inserted(a, b, added) ==
    /\ DOMAIN a \subseteq DOMAIN b
    /\ DOMAIN b \subseteq DOMAIN a \cup added
    /\ \A k \in DOMAIN a \ added : b[k] = a[k]

\* the pending step cleared the whole state: reset(), or a close_project
\* that closed a project
ClearedAll ==
    \/ lastTool = "reset"
    \/ lastTool = "close_project" /\ pre.project # None /\ ~IsError(lastResult)

\* C15: stream_shapes and block_shapes change only by insertion in a
\* create_stream or create_block call that returns success and by clear-all
\* on reset; every other tool and every create_stream or create_block that
\* returns an error leaves both unchanged; no single entry is ever removed.
C15_RegistriesInsertOrClear ==
    IF ClearedAll
    THEN DOMAIN state.stream_shapes = {} /\ DOMAIN state.block_shapes = {}
    ELSE IF lastTool = "create_stream" /\ ~IsError(lastResult)
    THEN /\ Inserted(pre.stream_shapes, state.stream_shapes,
                     {ArgOr(lastArgs, "name", NoName)})
         /\ SameRegistry(pre.block_shapes, state.block_shapes)
    ELSE IF lastTool = "create_block" /\ ~IsError(lastResult)
    THEN /\ Inserted(pre.block_shapes, state.block_shapes,
                     {ArgOr(lastArgs, "name", NoName)} \cup AutoBlockNames)
         /\ SameRegistry(pre.stream_shapes, state.stream_shapes)
    ELSE /\ SameRegistry(pre.stream_shapes, state.stream_shapes)
         /\ SameRegistry(pre.block_shapes, state.block_shapes)

\* a block dropped next to a registered stream: its shape registered under
\* the generated name and the given one
C15_Witness ==
    /\ lastTool = "create_block" /\ ~IsError(lastResult)
    /\ DOMAIN pre.block_shapes = {}
    /\ DOMAIN state.block_shapes = {"B1", "SEP-100"}
    /\ DOMAIN state.stream_shapes = {"S1"}

\* what a session observes of the ProMax session state: the fields its next
\* tool call reads through get_promax_state()
Observed(sid) ==
    [pmx |-> get_promax_state.pmx, project |-> get_promax_state.project,
     flowsheet |-> get_promax_state.flowsheet,
     stream_shapes |-> get_promax_state.stream_shapes,
     block_shapes |-> get_promax_state.block_shapes]

\* C16: with two sessions open, a tool invocation on behalf of session A
\* leaves the connection, project, flowsheet and shape registries observed by
\* session B as they were when the invocation started.
C16_SessionsIsolated ==
    (lastTool # "none" /\ session = "A")
        => /\ Observed("B").pmx = pre.pmx
           /\ Observed("B").project = pre.project
           /\ Observed("B").flowsheet = pre.flowsheet
           /\ SameRegistry(Observed("B").stream_shapes, pre.stream_shapes)
           /\ SameRegistry(Observed("B").block_shapes, pre.block_shapes)

\* the names of the tools of the server
ToolNames ==
    FlowsheetTools
        \cup {"connect_promax", "create_project", "open_project", "close_project",
              "save_project"}

\* a content list holding one text item
StructuredText(r) ==
    /\ DOMAIN r = {"content"}
    /\ Len(r.content) = 1
    /\ r.content[1].type = "text"
    /\ DOMAIN r.content[1] = {"type", "text"}

\* C17: every tool invocation, whatever its arguments and whichever vendor
\* call raises, hands back a content list with one text item; nothing is
\* raised to the caller.
C17_AlwaysStructuredResult ==
    lastTool \in ToolNames => StructuredText(lastResult)

\* create_block whose vendor call raised after the stencil master was read
C17_Witness ==
    /\ lastTool = "create_block"
    /\ Len(vendorCalls) >= 2
    /\ ErrorWith("Failed to create block")
    /\ ResultText(lastResult).info = <<vendorCalls[Len(vendorCalls)]>>

\* the pending add_components was asked for at least one component and
\* registered none
NothingAdded ==
    /\ lastTool = "add_components" /\ pre.flowsheet # None
    /\ Len(add_components_list(lastArgs)) > 0
    /\ \A i \in 1..Len(writes) : writes[i].op # "Components.Add"

\* C18: a result carries the failure prefix exactly when the requested
\* operation did not take effect: add_components carries it exactly when no
\* requested component was added, and run_simulation exactly when the
\* simulation did not converge.
C18_FailurePrefixIffNoEffect ==
    /\ (lastTool = "add_components" /\ pre.flowsheet # None
        /\ Len(add_components_list(lastArgs)) > 0)
          => (IsError(lastResult) <=> NothingAdded)
    /\ lastTool = "run_simulation"
          => (IsError(lastResult) <=> Msg(lastResult) # "Simulation converged successfully")

\* convert_units has been applied to lastArgs
Converted == lastTool = "convert_units"

\* the (kind, unit) pairs of the supported table
SupportedPairs ==
    {<<"temperature", "K">>, <<"temperature", "C">>, <<"temperature", "F">>,
     <<"temperature", "R">>,
     <<"pressure", "Pa">>, <<"pressure", "kPa">>, <<"pressure", "bar">>,
     <<"pressure", "atm">>, <<"pressure", "psi">>,
     <<"flow", "mol/s">>, <<"flow", "kmol/hr">>, <<"flow", "kg/s">>, <<"flow", "kg/hr">>}

\* y is the documented SI value of x in the given unit; each formula is
\* stated by the equation it solves
Documented(kind, unit, x, y) ==
    CASE <<kind, unit>> \in {<<"temperature", "K">>, <<"pressure", "Pa">>,
                             <<"flow", "mol/s">>, <<"flow", "kg/s">>} -> y = x
      [] <<kind, unit>> = <<"temperature", "C">> -> Sub(y, x) = Num(27315, 100)
      [] <<kind, unit>> = <<"temperature", "F">> ->
            Mul(Sub(y, Num(27315, 100)), Whole(9)) = Mul(Sub(x, Whole(32)), Whole(5))
      [] <<kind, unit>> = <<"temperature", "R">> -> Mul(y, Whole(9)) = Mul(x, Whole(5))
      [] <<kind, unit>> = <<"pressure", "kPa">> -> y = Mul(x, Whole(1000))
      [] <<kind, unit>> = <<"pressure", "bar">> -> y = Mul(x, Whole(100000))
      [] <<kind, unit>> = <<"pressure", "atm">> -> y = Mul(x, Whole(101325))
      [] <<kind, unit>> = <<"pressure", "psi">> ->
            Sub(y, Mul(x, Whole(6894))) = Mul(x, Num(76, 100))
      [] <<kind, unit>> = <<"flow", "kmol/hr">> -> Mul(y, Whole(3600)) = Mul(x, Whole(1000))
      [] <<kind, unit>> = <<"flow", "kg/hr">> -> Mul(y, Whole(3600)) = x
      [] OTHER -> FALSE

\* C19: for every value and every (unit, kind) pair of the supported table,
\* convert_units returns the documented formula result, and the session state
\* is what it was before the call.
C19_DocumentedFormulas ==
    (Converted /\ <<lastArgs.unit_type, lastArgs.unit>> \in SupportedPairs)
        => /\ lastResult.raised = ""
           /\ Documented(lastArgs.unit_type, lastArgs.unit, lastArgs.value,
                         lastResult.value)
           /\ state = pre

\* 212 F is 373.15 K, with a connection up
C19_Witness ==
    /\ Converted
    /\ lastArgs = [value |-> Whole(212), unit |-> "F", unit_type |-> "temperature"]
    /\ lastResult.value = Num(37315, 100)
    /\ state.pmx # None

\* C20: convert_units raises the unknown-kind error whenever the kind is none
\* of temperature, pressure, flow, whatever the unit; raises the unknown-unit
\* error whenever the kind is one of them and the unit is not registered under
\* it; and returns a value for a registered (unit, kind) pair only.
C20_UnknownKindThenUnknownUnit ==
    Converted =>
        LET kind == lastArgs.unit_type
            unit == lastArgs.unit
        IN  /\ kind \notin {"temperature", "pressure", "flow"}
                => (lastResult.raised = "ValueError"
                    /\ lastResult.msg = "Unknown unit type")
            /\ (kind \in {"temperature", "pressure", "flow"}
                /\ <<kind, unit>> \notin SupportedPairs)
                => (lastResult.raised = "ValueError" /\ lastResult.msg = "Unknown unit")
            /\ lastResult.raised = "" => <<kind, unit>> \in SupportedPairs

\* a pressure unit passed with kind temperature
C20_Witness ==
    /\ Converted
    /\ lastArgs.unit = "kPa" /\ lastArgs.unit_type = "temperature"
    /\ lastResult.raised = "ValueError" /\ lastResult.msg = "Unknown unit"

\* the values a sequence of writes gave a quantity: by the phase property
\* index (promax_server.py) or by the stream attribute (agent/core.py)
WrittenByIndex(ws, quantity) ==
    {ws[i].value : i \in {j \in 1..Len(ws) : ws[j].op = "Properties.Value"
                                             /\ ws[j].prop = PHASE_PROPS(quantity)}}
WrittenByAttribute(ws, attr) ==
    {ws[i].value : i \in {j \in 1..Len(ws) : ws[j].op = attr}}

\* what agent/core.py's tool writes for the arguments of the pending call, on
\* a flowsheet and with no vendor call raising
CoreWrites ==
    core_set_stream_properties_tool(
        CoreGlobals(pre.pmx, pre.project, pre.flowsheet), lastArgs, 0).writes

\* C21: for the same stream and arguments, the set_stream_properties tool of
\* agent/core.py and that of mcp/promax_server.py write the same temperature
\* (K), pressure (Pa) and molar flow (mol/s): the values of the unit converter.
C21_BothToolsWriteConverterValues ==
    (/\ lastTool = "set_stream_properties" /\ pre.flowsheet # None
     /\ ~IsError(lastResult)
     /\ \A k \in DOMAIN lastArgs \ {"stream_name"} : lastArgs[k] # None)
        => /\ WrittenByIndex(writes, "temperature")
                = WrittenByAttribute(CoreWrites, "Temperature")
           /\ WrittenByIndex(writes, "pressure") = WrittenByAttribute(CoreWrites, "Pressure")
           /\ WrittenByIndex(writes, "molar_flow")
                = WrittenByAttribute(CoreWrites, "MolarFlow")

\* the lower-cased block type of the last create_block call
LastBlockType == lower_block_type(ArgOr(lastArgs, "block_type", "separator"))

\* the table create_block consults in state s
BlockTable(s) == IF s.with_gui /\ s.vpage # None THEN BLOCK_STENCILS ELSE BLOCK_TYPES

UnknownBlockTypeMsg == "Unknown block type"

\* C22 as stated: create_block with a block type that is not in the table of
\* the current mode returns the 'Unknown block type' error, whatever else
\* holds of the state.
C22_UnknownTypeAlwaysUnknownError ==
    (lastTool = "create_block" /\ LastBlockType \notin BlockTable(pre))
        => ErrorWith(UnknownBlockTypeMsg)

\* C22: with a flowsheet active, create_block with a block type that is not
\* in the table of the current mode (BLOCK_STENCILS with a GUI and a Visio
\* page, BLOCK_TYPES otherwise) returns the 'Unknown block type' error naming
\* that table, makes no vendor call and leaves block_shapes as it was;
\* without a flowsheet the call is as ineffective but the error is the
\* 'No flowsheet' one.
C22_UnknownBlockTypeRejected ==
    (lastTool = "create_block" /\ LastBlockType \notin BlockTable(pre))
        => /\ IF pre.flowsheet # None
              THEN /\ ErrorWith(UnknownBlockTypeMsg)
                   /\ ResultText(lastResult).info = <<LastBlockType, BlockTable(pre)>>
              ELSE ErrorWith(NoFlowsheetMsg)
           /\ NoEffect
           /\ SameRegistry(pre.block_shapes, state.block_shapes)

\* a reactor asked for in GUI mode: known to BLOCK_TYPES, not to BLOCK_STENCILS
C22_Witness ==
    /\ lastTool = "create_block" /\ pre.flowsheet # None
    /\ pre.with_gui /\ pre.vpage # None
    /\ LastBlockType = "reactor"
    /\ ErrorWith(UnknownBlockTypeMsg)

\* C23: every call ProMaxState() returns the instance that
\* get_promax_state() returns (_state), and leaves every field of it,
\* connection, project and registries included, as it was.
C23_SingletonSurvivesConstruction ==
    lastTool = "ProMaxState"
        => /\ lastResult = _state
           /\ cls._instance = _state
           /\ state = pre

\* constructed again with a connection, a project and a tracked block
C23_Witness ==
    /\ lastTool = "ProMaxState"
    /\ pre.pmx # None /\ pre.project # None
    /\ DOMAIN pre.block_shapes # {}

\* the mapping ComponentComposition was constructed with
LastComponents == lastArgs.components.items

\* set_stream_composition given the same mapping, no vendor call failing
ToolOnSameMapping ==
    set_stream_composition_tool(state,
                                [stream_name |-> "S1",
                                 composition |-> lastArgs.components],
                                envComponents, {}, 0).res

\* C24: ComponentComposition accepts a mapping exactly when it is empty or
\* its values sum to within 0.001 of 1.0, and keeps an accepted mapping as
\* given; the empty mapping it accepts is rejected by set_stream_composition
\* with the sum error carrying 0.
C24_ModelAcceptsEmptyToolDoesNot ==
    lastTool = "ComponentComposition"
        => /\ (lastResult.type = "dict")
                <=> (\/ Len(LastComponents) = 0
                     \/ ~FarFromOne(sum_values(LastComponents, Len(LastComponents))))
           /\ lastResult.type = "dict" => lastResult = lastArgs.components
           /\ Len(LastComponents) = 0
                => /\ lastResult.type = "dict"
                   /\ IsError(ToolOnSameMapping)
                   /\ Msg(ToolOnSameMapping) = "Composition must sum to 1.0, got"
                   /\ ResultText(ToolOnSameMapping).info[1] = Whole(0)

\* the empty mapping
C24_Witness ==
    /\ lastTool = "ComponentComposition"
    /\ Len(LastComponents) = 0
    /\ lastResult.type = "dict"

\* len(self.sessions)
SessionCount(m) == Cardinality(DOMAIN m.sessions)

\* C25: whatever create_session, get_session, destroy_session and
\* cleanup-loop steps are taken, the manager holds at most max_sessions
\* sessions, and create_session called when the count equals max_sessions
\* raises RuntimeError and leaves the sessions as they were.
C25_AtMostMaxSessions ==
    [][/\ SessionCount(manager') <= manager'.max_sessions
       /\ (lastTool' = "create_session" /\ SessionCount(manager) = manager.max_sessions)
            => /\ lastResult'.type = "raised"
               /\ lastResult'.kind = "RuntimeError"
               /\ DOMAIN manager'.sessions = DOMAIN manager.sessions
               /\ \A sid \in DOMAIN manager.sessions :
                    manager'.sessions[sid] = manager.sessions[sid]]_vars

\* a third session refused by a manager of two
C25_Witness ==
    /\ lastTool = "create_session"
    /\ lastResult.type = "raised"
    /\ manager.max_sessions = MaxSessions
    /\ SessionCount(manager) = MaxSessions
    /\ lastArgs.session_id \notin DOMAIN manager.sessions

\* the message types that carry the work of the agent
ServerMessages == {"text", "tool_use", "results", "error"}

\* the first message sent on the connection is its session_created
Announced(k) ==
    Len(k.sent) > 0 /\ k.sent[1] = Sent("session_created", k.session_id)

\* C26 as stated: on every connection the first message sent is
\* session_created with the session id, sent before any client message is
\* read, and every text, tool_use, results or error message comes after it.
C26_SessionCreatedAlwaysFirst ==
    \A c \in Connections :
      LET k == conn[c]
      IN  /\ Len(k.sent) > 0 => Announced(k)
          /\ k.received > 0 => Announced(k)
          /\ \A i \in 1..Len(k.sent) :
               k.sent[i].type \in ServerMessages => (i > 1 /\ Announced(k))

\* C26: a client message is read only after session_created was sent, and
\* the messages sent are session_created with the session id followed by
\* text, tool_use, results and error messages only, unless the set-up or
\* the sending of session_created failed: then no client message is read
\* and the one message sent is an error.
C26_SessionCreatedFirstUnlessSetupFails ==
    \A c \in Connections :
      LET k == conn[c]
      IN  /\ k.received > 0 => Announced(k)
          /\ Len(k.sent) > 0
               => \/ /\ Announced(k)
                     /\ \A i \in 2..Len(k.sent) : k.sent[i].type \in ServerMessages
                  \/ /\ k.sent = <<Sent("error", NoName)>>
                     /\ k.received = 0
                     /\ k.pc \in {"finally", "done"}

\* a text sent in answer to a client message, after session_created
C26_Witness ==
    \E c \in Connections :
      /\ conn[c].received > 0
      /\ Len(conn[c].sent) >= 2
      /\ Announced(conn[c])
      /\ conn[c].sent[2].type = "text"

\* the handler of the connection has returned or raised
Ended(k) == k.pc \in {"done", "raised"}

\* C27: once the handler of a connection has ended, by a disconnect, an
\* exception while processing or a failed set-up, its session id is no key
\* of sessions and the agent, when one was created, has had cleanup run
\* exactly once (and not at all before the handler reaches its finally).
C27_EndedHandlerLeavesNoSession ==
    \A c \in Connections :
      LET k == conn[c]
      IN  /\ Ended(k)
               => /\ k.session_id \notin DOMAIN sessions
                  /\ k.agent # None => k.agent.cleanups = 1
          /\ (~Ended(k) /\ k.agent # None) => k.agent.cleanups = 0

\* a connection that ended after a client message, with its agent cleaned up
C27_Witness ==
    \E c \in Connections :
      /\ conn[c].pc = "done"
      /\ conn[c].agent # None
      /\ conn[c].received > 0
      /\ conn[c].agent.cleanups = 1

\* C28 as stated: an active flowsheet was obtained from the project handle
\* held in the state.
C28_FlowsheetOfCurrentProject ==
    state.flowsheet # None => state.flowsheet.project = state.project

\* how many elements of seq have this type
CountType(seq, type) == Cardinality({i \in DOMAIN seq : seq[i].type = type})

\* the SDK does what it is asked: the client is created, the query is
\* taken, the stream is delivered to its end and the client is closed
SdkSucceeds(script) ==
    /\ script.create /\ script.query /\ script.exit
    /\ CountType(script.msgs, "raise") = 0

\* C29 as stated: for every ResultMessage the SDK delivers, process_message
\* yields one RESULTS response, and no ERROR response because of it.
C29_ResultMessageYieldsResults ==
    (lastTool = "process_message" /\ SdkSucceeds(lastArgs))
        => /\ CountType(lastResult.responses, "results")
                = CountType(lastArgs.msgs, "ResultMessage")
           /\ CountType(lastResult.responses, "error") = 0

\* C30: process_message never raises to its caller and leaves _client
\* absent when it has finished; when creating the client, the query, the
\* stream or closing the client fails it yields exactly one ERROR response,
\* as its last response.
C30_FailureYieldsOneErrorLast ==
    lastTool = "process_message"
        => LET rs == lastResult.responses
           IN  /\ ~lastResult.raised
               /\ lastResult._client = None
               /\ CountType(rs, "error") <= 1
               /\ ~SdkSucceeds(lastArgs)
                    => /\ CountType(rs, "error") = 1
                       /\ rs[Len(rs)].type = "error"

\* the stream raises after a text was yielded
C30_Witness ==
    /\ lastTool = "process_message"
    /\ lastArgs.create /\ lastArgs.query
    /\ lastArgs.msgs = <<AssistantMessage(<<"TextBlock">>), StreamRaises>>
    /\ Len(lastResult.responses) = 2
    /\ lastResult.responses[1].type = "text"
    /\ lastResult.responses[2].type = "error"

\* the value satisfies the comparison of the target
Satisfies(actual, target) ==
    CASE target.comparison = "le" -> ~Gt(actual, target.target_value)
      [] target.comparison = "ge" -> ~Gt(target.target_value, actual)
      [] OTHER -> \/ ~Gt(actual, Add(target.target_value, target.tolerance))
                  /\ ~Gt(Sub(target.target_value, target.tolerance), actual)

\* target i of the pending compare_results call has a value that satisfies it
TargetMet(i) ==
    LET target == lastArgs.targets[i]
    IN  /\ target.parameter \in DOMAIN lastArgs.result_values
        /\ Satisfies(lastArgs.result_values[target.parameter], target)

\* C31: compare_results returns overall_pass true exactly when every target
\* has a value in result_values and that value satisfies the target's
\* comparison; it returns one assessment per target in target order, each
\* passed exactly when its target is met, and a summary counting the passed
\* ones; with no targets set it returns overall_pass true and no assessment.
C31_OverallPassIffEveryTargetMet ==
    lastTool = "compare_results"
        => LET n == Len(lastArgs.targets)
               r == lastResult
           IN  /\ r.overall_pass <=> \A i \in 1..n : TargetMet(i)
               /\ Len(r.assessments) = n
               /\ \A i \in 1..n : /\ r.assessments[i].target = lastArgs.targets[i]
                                  /\ r.assessments[i].passed <=> TargetMet(i)
               /\ n > 0 => r.summary.info
                             = <<Cardinality({i \in 1..n : TargetMet(i)}), n>>
               /\ n = 0 => r.overall_pass /\ r.summary.msg = "No targets defined"

\* two targets, the first met within its tolerance, the second without a value
C31_Witness ==
    /\ lastTool = "compare_results"
    /\ Len(lastArgs.targets) = 2
    /\ lastArgs.targets[1].comparison = "eq"
    /\ TargetMet(1)
    /\ lastArgs.targets[2].parameter \notin DOMAIN lastArgs.result_values
    /\ ~lastResult.overall_pass
    /\ lastResult.summary.info = <<1, 2>>

\* the time since the last activity of a session of the manager exceeds the timeout
Inactive(sid) ==
    /\ sid \in DOMAIN manager.sessions
    /\ now - manager.sessions[sid].last_activity > manager.timeout_seconds

\* C32: with the cleanup loop running, a session inactive for more than
\* timeout_seconds is eventually removed unless it is accessed again; the
\* loop removes no session whose inactivity is at most timeout_seconds;
\* get_session on an existing session sets its inactivity to zero; and
\* destroy_session on an unknown id leaves the sessions as they were.
C32_ExpiredEventuallyRemoved ==
    /\ \A sid \in SessionIds : Inactive(sid) ~> ~Inactive(sid)
    /\ [][/\ lastTool' = "_cleanup_loop"
               => \A sid \in DOMAIN manager.sessions \ DOMAIN manager'.sessions :
                    Inactive(sid)
          /\ (lastTool' = "get_session"
              /\ lastArgs'.session_id \in DOMAIN manager.sessions)
               => /\ DOMAIN manager'.sessions = DOMAIN manager.sessions
                  /\ now' - manager'.sessions[lastArgs'.session_id].last_activity = 0
          /\ (lastTool' = "destroy_session"
              /\ lastArgs'.session_id \notin DOMAIN manager.sessions)
               => /\ DOMAIN manager'.sessions = DOMAIN manager.sessions
                  /\ \A sid \in DOMAIN manager.sessions :
                       manager'.sessions[sid] = manager.sessions[sid]]_vars

\* an iteration of the loop that removed an expired session and kept one
\* that is not
C32_Witness ==
    /\ lastTool = "_cleanup_loop"
    /\ lastResult.sids # {}
    /\ lastResult.sids \cap DOMAIN manager.sessions = {}
    /\ DOMAIN manager.sessions # {}

\* C33 as stated: after any sequence of start() and stop() calls at most
\* one subprocess the manager started is alive; after stop() the tracked
\* process is absent and is_running() is false.
C33_AtMostOneSubprocessAlive ==
    /\ Cardinality(vnc.alive) <= 1
    /\ lastTool = "stop" => (vnc._process = None /\ ~is_running(vnc))

\* the cookie is a token a successful login issued, not logged out since,
\* whose expiry is in the future
ValidToken(cookie) ==
    /\ cookie \notin tokens.revoked
    /\ \E i \in 1..Len(tokens.issued) :
         tokens.issued[i].token = cookie /\ now < tokens.issued[i].expiry

\* C34: /app is served only for a token issued by a successful login, not
\* logged out since and not yet expired; for a token logged out or expired
\* /app redirects to the login page and auth status says not
\* authenticated; a login with wrong credentials issues no token.
C34_AppOnlyForValidToken ==
    /\ lastTool = "app_page"
         => (lastResult.value = "index.html" <=> ValidToken(lastArgs.session))
    /\ lastTool = "auth_status"
         => (lastResult.value <=> ValidToken(lastArgs.session))
    /\ lastTool = "login"
         => \/ /\ lastResult.value \in DOMAIN auth_sessions
               /\ ValidToken(lastResult.value)
            \/ /\ lastResult.value = "401 Invalid credentials"
               /\ DOMAIN auth_sessions
                    \subseteq {tokens.issued[i].token : i \in 1..Len(tokens.issued)}
    /\ \A cookie \in DOMAIN auth_sessions :
         \E i \in 1..Len(tokens.issued) :
           /\ tokens.issued[i].token = cookie
           /\ tokens.issued[i].expiry = auth_sessions[cookie]

\* /app refused to a token that was issued and has been logged out since
C34_Witness ==
    /\ lastTool = "app_page"
    /\ lastArgs.session = Token(1)
    /\ Len(tokens.issued) >= 1
    /\ now < tokens.issued[1].expiry
    /\ Token(1) \in tokens.revoked
    /\ lastResult.value = "redirect to /"

\* the last call glued a stream shape to a block shape
Glued == \E i \in 1..Len(writes) : writes[i].op = "GlueTo"

\* C35: connect_stream glues only in GUI mode with the stream name a key of
\* stream_shapes and the block name a key of block_shapes, and otherwise
\* returns an error without a glue call; so no stream or block created in
\* background (data-only) mode is ever connected, and a block created in
\* GUI mode is registered under its auto-generated and its given name.
C35_OnlyRegisteredShapesConnect ==
    /\ lastTool = "connect_stream" =>
         LET stream_name == ArgOr(lastArgs, "stream_name", NoName)
             block_name == ArgOr(lastArgs, "block_name", NoName)
             connectable == /\ pre.with_gui
                            /\ stream_name \in DOMAIN pre.stream_shapes
                            /\ block_name \in DOMAIN pre.block_shapes
         IN  /\ Glued => connectable
             /\ ~connectable => IsError(lastResult) /\ ~Glued
             /\ Glued => /\ stream_name \notin DOMAIN created \/ created[stream_name] # DataOnly
                         /\ block_name \notin DOMAIN created \/ created[block_name] # DataOnly
    /\ (lastTool = "create_block" /\ gui_mode(pre) /\ ~IsError(lastResult)) =>
         /\ ResultText(lastResult).info[2] \in DOMAIN state.block_shapes
         /\ ArgOr(lastArgs, "name", NoName) # NoName
              => lastArgs.name \in DOMAIN state.block_shapes

\* set_stream_properties accepted the property: its SI value is stored
Accepted(key, prop) == HasValue(lastArgs, key) /\ Stored(prop) # None

\* C36: after set_stream_properties accepted temperature_c, pressure_kpa and
\* molar_flow_kmol_hr, get_stream_results reports the same three values,
\* also when the stored SI value is 0.
C36_StreamPropertiesRoundTrip ==
    (lastTool = "get_stream_results" /\ ~IsError(lastResult)) =>
      /\ Accepted("temperature_c", "temperature")
           => ResultText(lastResult).info[2] = lastArgs.temperature_c
      /\ Accepted("pressure_kpa", "pressure")
           => ResultText(lastResult).info[3] = lastArgs.pressure_kpa
      /\ Accepted("molar_flow_kmol_hr", "molar_flow")
           => ResultText(lastResult).info[4] = lastArgs.molar_flow_kmol_hr

====
